---- MODULE Spec2Model ----
(***************************************************************************)
(* MyCookBook: the recipe store (MemStorage, PostgresStorage) and the      *)
(* route layer of src/server/postgres-storage.ts and src/client/src/App.tsx*)
(* as a state machine.                                                     *)
(*                                                                         *)
(* A JavaScript object is a function from its keys to its values, so       *)
(* object spread {...a, ...b} is function override (Spread).  A JavaScript *)
(* Map is the sequence of its entries in insertion order.  Strings are     *)
(* TLA+ strings, read character by character with SubSeq.                  *)
(***************************************************************************)
EXTENDS Integers, Sequences, FiniteSets, TLC

VARIABLES
    recipes,        \* MemStorage.recipes: the Map's entries, in insertion order
    nextRecipeId,   \* MemStorage.nextRecipeId
    now,            \* the wall clock read by new Date(), in milliseconds
    edits,          \* number of updateRecipe and deleteRecipe calls that found their record
    pgRows,         \* PostgresStorage: the rows of table `recipes`
    pgSeq,          \* PostgresStorage: the last value of the serial sequence of recipes.id
    last,           \* the last call: its name, its arguments, what it returned
    searchInput,    \* SearchAndCreate: the text of the search box
    searchTimerId,  \* SearchAndCreate: the timer its effect's cleanup will clear
    searchTerm,     \* HomePage state
    debouncedSearchTerm,
    selectedTags,
    sortOption,
    debounceTimerId, \* HomePage: the timer its effect's cleanup will clear
    timers,         \* the browser's pending timers: id, owner, time left, captured value
    inputAge,       \* how long the search box has held its text (capped)
    cache,          \* the query cache: the lengths of the pages held for a query key
    inflight,       \* the fetches of the infinite queries that have a request out
    issued,         \* offsets requested for the current query key since it became current
    handlers,       \* the route handlers of the requests in progress, and their responses
    storageCalls,   \* the calls MemStorage has served for them, in order
    ingredients,    \* CreateRecipeDialog: the form's value of "ingredients"
    ingredientInput, \* CreateRecipeDialog state
    editingIngredientIndex,
    tempIngredient,
    editedItem      \* the ingredient whose edit button was clicked last

clientState ==
    <<searchInput, searchTimerId, searchTerm, debouncedSearchTerm, selectedTags, sortOption,
      debounceTimerId, timers, inputAge, cache, inflight, issued>>

flightState == <<handlers, storageCalls>>

dialogState ==
    <<ingredients, ingredientInput, editingIngredientIndex, tempIngredient, editedItem>>

vars ==
    <<recipes, nextRecipeId, now, edits, pgRows, pgSeq, last, clientState, flightState,
      dialogState>>

serverState == <<recipes, nextRecipeId, now, edits, pgRows, pgSeq, last, flightState>>

pgState == <<pgRows, pgSeq>>
memState == <<recipes, nextRecipeId, edits>>

(***************************************************************************)
(* Bounds of the model.                                                    *)
(***************************************************************************)
MaxRecipeId == 7    \* createRecipe is explored while the id it assigns is <= this
MaxEdits == 1       \* store-changing updateRecipe/deleteRecipe calls explored
MaxNow == 2         \* the clock is explored up to this millisecond
MaxPagingId == 17   \* as MaxRecipeId, where only createRecipe writes (SpecPaging)
MaxPgRows == 2      \* PostgresStorage.createRecipe is explored while the table has fewer rows
TimeStep == 500     \* milliseconds the browser's clock is moved on by at most at a time
MaxCachedKeys == 2  \* query keys the cache is explored with at a time
MaxPagesHeld == 2   \* Load More is explored while fewer pages are held
MaxIssued == 3      \* Load More and refetch are explored while fewer requests are logged
MaxRequests == 2    \* requests whose handlers are explored in progress together

(***************************************************************************)
(* JavaScript values.                                                      *)
(***************************************************************************)
Undefined == [undefined |-> TRUE]

Min(S) == CHOOSE x \in S : \A y \in S : x <= y
Max(S) == CHOOSE x \in S : \A y \in S : x >= y

\* {...a, ...b}
Spread(a, b) ==
    [k \in (DOMAIN a) \cup (DOMAIN b) |-> IF k \in DOMAIN b THEN b[k] ELSE a[k]]

\* Slice with the element at `end` included.
SliceThroughEnd(arr, start, end) ==
    LET len == Len(arr)
        k == IF start < 0 THEN Max({len + start, 0}) ELSE Min({start, len})
        final == IF end < 0 THEN Max({len + end + 1, 0}) ELSE Min({end + 1, len})
    IN  SubSeq(arr, k + 1, final)

\* Array.prototype.slice(start, end)
Slice(arr, start, end) ==
    LET len == Len(arr)
        k == IF start < 0 THEN Max({len + start, 0}) ELSE Min({start, len})
        final == IF end < 0 THEN Max({len + end, 0}) ELSE Min({end, len})
    IN  SubSeq(arr, k + 1, final)

\* Array.prototype.filter: the elements at the indices `keep`, in their order
Filter(arr, keep) ==
    LET Nth(k) == CHOOSE i \in keep : Cardinality({j \in keep : j < i}) = k - 1
    IN  [k \in 1..Cardinality(keep) |-> arr[Nth(k)]]

Range(arr) == {arr[i] : i \in 1..Len(arr)}

(***************************************************************************)
(* Strings.                                                                *)
(***************************************************************************)
UpperChars == "ABCDEFGHIJKLMNOPQRSTUVWXYZ"
LowerChars == "abcdefghijklmnopqrstuvwxyz"

CharAt(s, i) == SubSeq(s, i, i)

IndexIn(chars, c) ==
    LET hits == {i \in 1..Len(chars) : CharAt(chars, i) = c}
    IN  IF hits = {} THEN 0 ELSE Min(hits)

ToLowerChar(c) ==
    IF IndexIn(UpperChars, c) > 0 THEN CharAt(LowerChars, IndexIn(UpperChars, c)) ELSE c

\* String.prototype.toLowerCase (the string is lowered half by half)
RECURSIVE LowerCased(_)
LowerCased(s) ==
    IF Len(s) = 0 THEN ""
    ELSE IF Len(s) = 1 THEN ToLowerChar(s)
    ELSE LET h == Len(s) \div 2
         IN  LowerCased(SubSeq(s, 1, h)) \o LowerCased(SubSeq(s, h + 1, Len(s)))

\* String.prototype.includes
Contains(s, q) ==
    \E i \in 1..(Len(s) - Len(q) + 1) : SubSeq(s, i, i + Len(q) - 1) = q

\* The whitespace String.prototype.trim removes, as far as the inputs hold any.
IsBlankChar(c) == c = " "

\* String.prototype.trim
Trim(s) ==
    LET inked == {i \in 1..Len(s) : ~IsBlankChar(CharAt(s, i))}
    IN  IF inked = {} THEN "" ELSE SubSeq(s, Min(inked), Max(inked))

\* String.prototype.split(','): the pieces between the commas
Split(s) ==
    LET commas == {i \in 1..Len(s) : CharAt(s, i) = ","}
        n == Cardinality(commas)
        Nth(k) == CHOOSE i \in commas : Cardinality({j \in commas : j < i}) = k - 1
    IN  [k \in 1..(n + 1) |->
            SubSeq(s, IF k = 1 THEN 1 ELSE Nth(k - 1) + 1,
                      IF k = n + 1 THEN Len(s) ELSE Nth(k) - 1)]

(***************************************************************************)
(* String.prototype.localeCompare under the default (root) collation, for  *)
(* the characters recipe names hold: the letters are compared first        *)
(* without their case (space sorts before the digits, the digits before    *)
(* the letters), and strings with the same letters are then ordered by the *)
(* first place where the case differs, the lower case letter first.        *)
(***************************************************************************)
CollationOrder == " &-0123456789abcdefghijklmnopqrstuvwxyz"

PrimaryWeight(c) == IndexIn(CollationOrder, ToLowerChar(c))

PrimaryCompare(a, b) ==
    LET n == Min({Len(a), Len(b)})
        diff == {i \in 1..n : PrimaryWeight(CharAt(a, i)) # PrimaryWeight(CharAt(b, i))}
    IN  IF diff = {}
        THEN (IF Len(a) < Len(b) THEN -1 ELSE IF Len(a) > Len(b) THEN 1 ELSE 0)
        ELSE IF PrimaryWeight(CharAt(a, Min(diff))) < PrimaryWeight(CharAt(b, Min(diff)))
             THEN -1 ELSE 1

\* Only used on strings with the same primary weights, so of the same length.
CaseCompare(a, b) ==
    LET diff == {i \in 1..Len(a) : CharAt(a, i) # CharAt(b, i)}
    IN  IF diff = {} THEN 0
        ELSE IF CharAt(a, Min(diff)) = ToLowerChar(CharAt(a, Min(diff))) THEN -1 ELSE 1

\* The characters the collation gives no weight at all: here the soft hyphen
\* (U+00AD), which stands, invisible, between the quotes.
IgnorableChars == "­"

\* The string as the collation sees it, without the characters it ignores
RECURSIVE CollationKey(_)
CollationKey(s) ==
    LET ignored == {i \in 1..Len(s) : IndexIn(IgnorableChars, CharAt(s, i)) > 0}
    IN  IF ignored = {} THEN s
        ELSE SubSeq(s, 1, Min(ignored) - 1) \o CollationKey(SubSeq(s, Min(ignored) + 1, Len(s)))

\* Strings that differ only in ignored characters compare equal (0), as
\* canonically equivalent strings do.
Collate(a, b) ==
    LET x == CollationKey(a)
        y == CollationKey(b)
        p == PrimaryCompare(x, y)
    IN  IF p # 0 THEN p ELSE CaseCompare(x, y)

(***************************************************************************)
(* imageUrl is the field whose JSON type the request bodies vary (a string, *)
(* null, or a number no schema admits), so its values carry their type.    *)
(* Every other field holds values of its column's type.                    *)
(***************************************************************************)
JsonString(s) == [string |-> s]

JsonNumber(n) == [number |-> n]

JsonNull == [null |-> TRUE]

(***************************************************************************)
(* seedRecipes: the six sample recipes, in the order of the source.  The   *)
(* name, times, servings, tags and author are the source's; the long texts *)
(* (description, ingredients, instructions, imageUrl) keep their leading   *)
(* part only.                                                              *)
(***************************************************************************)
sampleRecipes ==
    << [name |-> "Homemade Pasta with Fresh Herbs",
        description |-> "A simple yet delicious pasta dish made with fresh basil, garlic, and high-quality olive oil.",
        ingredients |-> <<"2 cups all-purpose flour", "1 tablespoon olive oil">>,
        instructions |-> <<"Mix flour and salt in a large bowl.">>,
        imageUrl |-> JsonString("https://images.unsplash.com/photo-1546549032-9571cd6b27df"),
        prepTime |-> 0, cookTime |-> 20, servings |-> 4,
        tags |-> <<"Italian", "Dinner", "Vegetarian">>, authorId |-> 1],
       [name |-> "Avocado Toast",
        description |-> "Creamy avocado on toasted sourdough bread.",
        ingredients |-> <<"1 ripe avocado", "2 slices sourdough bread">>,
        instructions |-> <<"Toast the sourdough bread until golden and crispy.">>,
        imageUrl |-> JsonString("https://images.unsplash.com/photo-1631311915775-e8f4250a7d4e"),
        prepTime |-> 5, cookTime |-> 15, servings |-> 2,
        tags |-> <<"Breakfast", "Quick & Easy", "Vegetarian">>, authorId |-> 1],
       [name |-> "Berry Smoothie Bowl",
        description |-> "A refreshing and nutritious smoothie bowl packed with antioxidants and topped with fresh fruits, granola, and honey.",
        ingredients |-> <<"1 cup mixed frozen berries", "1 frozen banana">>,
        instructions |-> <<"Add frozen berries, banana, yogurt, milk, and sweetener to a blender.">>,
        imageUrl |-> JsonString("https://plus.unsplash.com/premium_photo-1726718415822-ff58dbb43e17"),
        prepTime |-> 0, cookTime |-> 10, servings |-> 1,
        tags |-> <<"Breakfast", "Vegan", "Healthy">>, authorId |-> 1],
       [name |-> "Homemade Margherita Pizza",
        description |-> "Classic Margherita pizza with a crispy crust, San Marzano tomatoes, fresh mozzarella, and basil.",
        ingredients |-> <<"8 oz fresh mozzarella, sliced", "Fresh basil leaves">>,
        instructions |-> <<"Mix flour, yeast, and salt in a bowl.">>,
        imageUrl |-> JsonString("https://images.unsplash.com/photo-1513104890138-7c749659a591"),
        prepTime |-> 60, cookTime |-> 40, servings |-> 2,
        tags |-> <<"Italian", "Dinner", "Vegetarian">>, authorId |-> 1],
       [name |-> "Chocolate Chip Cookies",
        description |-> "Classic chocolate chip cookies with crispy edges and a soft, chewy center.",
        ingredients |-> <<"1 cup unsalted butter, softened", "2 large eggs">>,
        instructions |-> <<"Preheat oven to 375 F and line baking sheets with parchment paper.">>,
        imageUrl |-> JsonString("https://images.unsplash.com/photo-1499636136210-6f4ee915583e"),
        prepTime |-> 0, cookTime |-> 35, servings |-> 24,
        tags |-> <<"Dessert", "Baking", "Kid-Friendly">>, authorId |-> 1],
       [name |-> "Grilled Tofu Salad",
        description |-> "A vibrant and filling salad with grilled marinated tofu, mixed greens, avocado, and a homemade lemon-tahini dressing.",
        ingredients |-> <<"1 block firm tofu, pressed and sliced", "1 avocado, sliced">>,
        instructions |-> <<"Grill or pan-sear tofu slices for 3-4 minutes per side until golden and slightly crispy.">>,
        imageUrl |-> JsonString("https://images.unsplash.com/photo-1512621776951-a57141f2eefd"),
        prepTime |-> 15, cookTime |-> 10, servings |-> 4,
        tags |-> <<"Lunch", "Healthy", "Vegan", "High-Protein">>, authorId |-> 1] >>

SeedCount == Len(sampleRecipes)

(***************************************************************************)
(* The inputs the operations are explored with.                            *)
(***************************************************************************)
\* createRecipe arguments.  The second carries keys the server assigns itself
\* and has the name of a seed recipe.
VeganCake ==
    [name |-> "avocado toast",
     description |-> "Vegan CAKE with a lime glaze.",
     ingredients |-> <<"2 ripe Avocados">>,
     instructions |-> <<"Blend.">>,
     imageUrl |-> JsonString(""),
     prepTime |-> 10, cookTime |-> 0, servings |-> 8,
     tags |-> <<"Vegan", "Dessert">>, authorId |-> 1]

ToastAgain ==
    [name |-> "Avocado Toast",
     description |-> "Toast, again.",
     ingredients |-> <<"1 slice of bread">>,
     instructions |-> <<"Toast.">>,
     imageUrl |-> JsonString(""),
     prepTime |-> 1, cookTime |-> 2, servings |-> 1,
     tags |-> <<"Dessert">>, authorId |-> 2,
     id |-> 1, createdAt |-> 0, rating |-> 5, ratingCount |-> 3]

InsertRecipes == {VeganCake, ToastAgain}

\* A recipe named as the first seed recipe but for a soft hyphen (U+00AD)
\* after "Avo": another string, which localeCompare finds equal.
HyphenatedToast == Spread(VeganCake, [name |-> "Avo­cado Toast"])

\* updateRecipe arguments: the request body of PUT /api/recipes/:id, which the
\* route passes on as it is.  The values have the types of the Recipe fields.
EmptyObject == [k \in {} |-> 0]

UpdatePayloads ==
    { EmptyObject,
      [name |-> "Zucchini Bread"],
      [rating |-> 5],
      [id |-> 1],
      [createdAt |-> 0] }

\* The ids the calls are explored with: a seed recipe, the first recipe created
\* later, and an id createRecipe never assigns.
RecipeIds == {2, SeedCount + 1, MaxRecipeId + 1}

SearchQueries == {"", "Avocado", "VEGAN", "BANANA"}

TagLists == {<<>>, <<"Vegan">>, <<"Vegan", "Dessert">>, <<"vegan">>}

\* The criteria sortRecipes' switch knows.
SortCriteria == {"newest", "oldest", "az", "za", "popular"}

\* The criteria of the type, and one that is none of them.
CriteriaInputs == SortCriteria \cup {"rating"}

PageSize == 6

Pages ==
    { [limit |-> PageSize, offset |-> 0],
      [limit |-> PageSize, offset |-> PageSize],
      [limit |-> PageSize, offset |-> 2 * PageSize],
      [limit |-> 3 * PageSize, offset |-> 0] }

(***************************************************************************)
(* The string operations, tabulated once over the strings the inputs hold  *)
(* (a string outside the tables is computed).                              *)
(***************************************************************************)
TextsOf(r) ==
    (IF "name" \in DOMAIN r THEN {r.name} ELSE {})
    \cup (IF "description" \in DOMAIN r THEN {r.description} ELSE {})
    \cup (IF "ingredients" \in DOMAIN r THEN Range(r.ingredients) ELSE {})
    \cup (IF "tags" \in DOMAIN r THEN Range(r.tags) ELSE {})

NamesOf(r) == IF "name" \in DOMAIN r THEN {r.name} ELSE {}

InputObjects ==
    Range(sampleRecipes) \cup InsertRecipes \cup UpdatePayloads \cup {HyphenatedToast}

Texts == UNION {TextsOf(r) : r \in InputObjects} \cup SearchQueries

Names == UNION {NamesOf(r) : r \in InputObjects}

LowerCaseTable == [s \in Texts |-> LowerCased(s)] @@ EmptyObject

LowerTexts == {LowerCaseTable[s] : s \in Texts}

ContainsTable == [s \in LowerTexts |-> [q \in LowerTexts |-> Contains(s, q)] @@ EmptyObject] @@ EmptyObject

CollateTable == [a \in Names |-> [b \in Names |-> Collate(a, b)] @@ EmptyObject] @@ EmptyObject

ToLowerCase(s) == IF s \in Texts THEN LowerCaseTable[s] ELSE LowerCased(s)

Includes(s, q) ==
    IF s \in LowerTexts /\ q \in LowerTexts THEN ContainsTable[s][q] ELSE Contains(s, q)

LocaleCompare(a, b) ==
    IF a \in Names /\ b \in Names THEN CollateTable[a][b] ELSE Collate(a, b)

(***************************************************************************)
(* MemStorage.recipes: Map<number, Recipe>.                                *)
(***************************************************************************)
MapHas(m, key) == \E i \in 1..Len(m) : m[i].key = key

MapGet(m, key) ==
    IF MapHas(m, key)
    THEN m[CHOOSE i \in 1..Len(m) : m[i].key = key].val
    ELSE Undefined

\* Map.prototype.set: a key already present keeps its place.
MapSet(m, key, val) ==
    IF MapHas(m, key)
    THEN [i \in 1..Len(m) |-> IF m[i].key = key THEN [key |-> key, val |-> val] ELSE m[i]]
    ELSE Append(m, [key |-> key, val |-> val])

RECURSIVE MapDelete(_, _)
MapDelete(m, key) ==
    IF m = <<>> THEN <<>>
    ELSE IF Head(m).key = key THEN MapDelete(Tail(m), key)
    ELSE <<Head(m)>> \o MapDelete(Tail(m), key)

\* Array.from(this.recipes.values())
MapValues(m) == [i \in 1..Len(m) |-> m[i].val]

MapKeys(m) == {m[i].key : i \in 1..Len(m)}

(***************************************************************************)
(* The sort comparators of getRecipes and sortRecipes, and                 *)
(* Array.prototype.sort, which is stable: an element goes after every      *)
(* earlier element that does not compare greater than it.                  *)
(***************************************************************************)
\* The comparators with 'newest' comparing as 'oldest' does.
CompareNewestAsOldest(criteria, a, b) ==
    CASE criteria = "newest" -> a.createdAt - b.createdAt
      [] criteria = "oldest" -> a.createdAt - b.createdAt
      [] criteria = "az" -> LocaleCompare(a.name, b.name)
      [] criteria = "za" -> LocaleCompare(b.name, a.name)
      [] criteria = "popular" -> b.rating - a.rating

\* The comparators with 'za' comparing as 'az' does.
CompareZaAsAz(criteria, a, b) ==
    CASE criteria = "newest" -> b.createdAt - a.createdAt
      [] criteria = "oldest" -> a.createdAt - b.createdAt
      [] criteria = "az" -> LocaleCompare(a.name, b.name)
      [] criteria = "za" -> LocaleCompare(a.name, b.name)
      [] criteria = "popular" -> b.rating - a.rating

Compare(criteria, a, b) ==
    CASE criteria = "newest" -> b.createdAt - a.createdAt
      [] criteria = "oldest" -> a.createdAt - b.createdAt
      [] criteria = "az" -> LocaleCompare(a.name, b.name)
      [] criteria = "za" -> LocaleCompare(b.name, a.name)
      [] criteria = "popular" -> b.rating - a.rating

InsertSorted(criteria, sorted, x) ==
    LET after == {i \in 1..Len(sorted) : Compare(criteria, sorted[i], x) > 0}
        p == IF after = {} THEN Len(sorted) + 1 ELSE Min(after)
    IN  SubSeq(sorted, 1, p - 1) \o <<x>> \o SubSeq(sorted, p, Len(sorted))

RECURSIVE ArraySort(_, _)
ArraySort(criteria, arr) ==
    IF arr = <<>> THEN <<>>
    ELSE InsertSorted(criteria, ArraySort(criteria, SubSeq(arr, 1, Len(arr) - 1)), arr[Len(arr)])

(***************************************************************************)
(* MemStorage: what each method returns and stores.                        *)
(***************************************************************************)
GetRecipesResult(m, limit, offset) ==
    Slice(ArraySort("newest", MapValues(m)), offset, offset + limit)

GetRecipeByIdResult(m, id) == MapGet(m, id)

\* NewRecipe with the spread written last, so that the caller's keys win.
NewRecipeCallerWins(insertRecipe, id, date) ==
    Spread([id |-> id, createdAt |-> date, rating |-> 0, ratingCount |-> 0], insertRecipe)

\* The record createRecipe builds from its argument.
NewRecipe(insertRecipe, id, date) ==
    Spread(insertRecipe, [id |-> id, createdAt |-> date, rating |-> 0, ratingCount |-> 0])

\* The record updateRecipe builds from the stored one and its argument.
\* The updates in the place of the record instead of merged into it.
UpdatedRecipeReplaced(existingRecipe, updates) == updates

UpdatedRecipe(existingRecipe, updates) == Spread(existingRecipe, updates)

\* SearchMatches looking at the name and the description only.
SearchMatchesNameOrDescription(recipe, lowercaseQuery) ==
    \/ Includes(ToLowerCase(recipe.name), lowercaseQuery)
    \/ Includes(ToLowerCase(recipe.description), lowercaseQuery)

SearchMatches(recipe, lowercaseQuery) ==
    \/ Includes(ToLowerCase(recipe.name), lowercaseQuery)
    \/ Includes(ToLowerCase(recipe.description), lowercaseQuery)
    \/ \E i \in 1..Len(recipe.ingredients) :
          Includes(ToLowerCase(recipe.ingredients[i]), lowercaseQuery)
    \/ \E t \in 1..Len(recipe.tags) :
          Includes(ToLowerCase(recipe.tags[t]), lowercaseQuery)

SearchRecipesResult(m, query, limit, offset) ==
    IF query = "" THEN GetRecipesResult(m, limit, offset)
    ELSE LET lowercaseQuery == ToLowerCase(query)
             all == MapValues(m)
             matchedRecipes ==
                 Filter(all, {i \in 1..Len(all) : SearchMatches(all[i], lowercaseQuery)})
         IN  Slice(matchedRecipes, offset, offset + limit)

\* TagsMatch with `some` in the place of `every`.
TagsMatchSome(recipe, tags) ==
    \E i \in 1..Len(tags) : \E j \in 1..Len(recipe.tags) : recipe.tags[j] = tags[i]

\* tags.every(tag => recipe.tags.includes(tag))
TagsMatch(recipe, tags) ==
    \A i \in 1..Len(tags) : \E j \in 1..Len(recipe.tags) : recipe.tags[j] = tags[i]

FilterRecipesByTagsResult(m, tags, limit, offset) ==
    IF Len(tags) = 0 THEN GetRecipesResult(m, limit, offset)
    ELSE LET all == MapValues(m)
             matchedRecipes == Filter(all, {i \in 1..Len(all) : TagsMatch(all[i], tags)})
         IN  Slice(matchedRecipes, offset, offset + limit)

\* sortRecipes with a default case that sorts as 'newest' does.
SortRecipesResultDefaultNewest(m, criteria, limit, offset) ==
    LET allRecipes == MapValues(m)
        sorted == IF criteria \in SortCriteria THEN ArraySort(criteria, allRecipes)
                  ELSE ArraySort("newest", allRecipes)
    IN  Slice(sorted, offset, offset + limit)

\* A criterion that is none of the switch's cases leaves the array as it is.
SortRecipesResult(m, criteria, limit, offset) ==
    LET allRecipes == MapValues(m)
        sorted == IF criteria \in SortCriteria THEN ArraySort(criteria, allRecipes)
                  ELSE allRecipes
    IN  Slice(sorted, offset, offset + limit)

(***************************************************************************)
(* The home page when it has mounted.  The effects of SearchAndCreate and  *)
(* of HomePage have each set their timer, and the infinite query has sent  *)
(* the request for its first page.                                         *)
(***************************************************************************)
SearchInputDelay == 300

SearchTermDelay == 500

QueryKey(search, tags, sort) == [search |-> search, tags |-> tags, sort |-> sort]

\* queryKey: ["recipes", debouncedSearchTerm, selectedTags, sortOption]
CurrentKey == QueryKey(debouncedSearchTerm, selectedTags, sortOption)

\* A fetch of an infinite query: the request that is out, the pages it has
\* got so far, and how many it is to get (one, or as many as were held).
Fetch(key, offset, acc, want, mode) ==
    [key |-> key, limit |-> PageSize, offset |-> offset, acc |-> acc, want |-> want,
     mode |-> mode]

Timer(id, owner, due, value) == [id |-> id, owner |-> owner, due |-> due, value |-> value]

HomePageMounted ==
    /\ searchInput = ""
    /\ searchTerm = ""
    /\ debouncedSearchTerm = ""
    /\ selectedTags = <<>>
    /\ sortOption = "newest"
    /\ timers = { Timer(1, "SearchAndCreate", SearchInputDelay, ""),
                  Timer(2, "HomePage", SearchTermDelay, "") }
    /\ searchTimerId = 1
    /\ debounceTimerId = 2
    /\ inputAge = SearchTermDelay
    /\ cache = EmptyObject
    /\ inflight = {Fetch(QueryKey("", <<>>, "newest"), 0, <<>>, 1, "load")}
    /\ issued = <<0>>

\* No request has come in.
Idle == [pc |-> "idle"]

NoRequestYet ==
    /\ handlers = [r \in 1..MaxRequests |-> Idle]
    /\ storageCalls = <<>>

(***************************************************************************)
(* The state after `new MemStorage()`: the constructor creates the six     *)
(* sample recipes one after the other, each with its own `new Date()`; the *)
(* clock may tick once between two of them.                                *)
(***************************************************************************)
SeededStore(k) ==
    [i \in 1..SeedCount |->
        [key |-> i, val |-> NewRecipe(sampleRecipes[i], i, IF i <= k THEN 1 ELSE 2)]]

\* useState and the defaultValues of useForm
NotEditing == [null |-> TRUE, index |-> 0]

Editing(index) == [null |-> FALSE, index |-> index]

DialogOpened ==
    /\ ingredients = <<>>
    /\ ingredientInput = ""
    /\ editingIngredientIndex = NotEditing
    /\ tempIngredient = ""
    /\ editedItem = ""

Init ==
    \E k \in 1..SeedCount :
        /\ recipes = SeededStore(k)
        /\ nextRecipeId = SeedCount + 1
        /\ now = IF k = SeedCount THEN 1 ELSE 2
        /\ edits = 0
        /\ pgRows = <<>>
        /\ pgSeq = 0
        /\ last = [op |-> "constructor"]
        /\ HomePageMounted
        /\ NoRequestYet
        /\ DialogOpened

(***************************************************************************)
(* MemStorage's methods.  None of them awaits, so each is one step.        *)
(***************************************************************************)
Tick ==
    /\ now < MaxNow
    /\ now' = now + 1
    /\ UNCHANGED <<dialogState, clientState, flightState, recipes, nextRecipeId, edits, pgState, last>>

createRecipe(insertRecipe) ==
    /\ LET id == nextRecipeId
           recipe == NewRecipe(insertRecipe, id, now)
       IN  /\ nextRecipeId' = nextRecipeId + 1
           /\ recipes' = MapSet(recipes, id, recipe)
           /\ last' = [op |-> "createRecipe", insertRecipe |-> insertRecipe, ret |-> recipe]
    /\ UNCHANGED <<dialogState, clientState, flightState, now, edits, pgState>>

updateRecipe(id, updates) ==
    LET existingRecipe == MapGet(recipes, id)
    IN  IF existingRecipe = Undefined
        THEN /\ last' = [op |-> "updateRecipe", id |-> id, updates |-> updates,
                         ret |-> Undefined]
             /\ UNCHANGED <<dialogState, clientState, flightState, recipes, nextRecipeId, now, edits, pgState>>
        ELSE /\ edits < MaxEdits
             /\ LET updatedRecipe == UpdatedRecipe(existingRecipe, updates)
                IN  /\ recipes' = MapSet(recipes, id, updatedRecipe)
                    /\ last' = [op |-> "updateRecipe", id |-> id, updates |-> updates,
                                ret |-> updatedRecipe]
             /\ edits' = edits + 1
             /\ UNCHANGED <<dialogState, clientState, flightState, nextRecipeId, now, pgState>>

\* deleteRecipe answering true whether or not the key was present.
deleteRecipeAlwaysTrue(id) ==
    /\ MapHas(recipes, id) => edits < MaxEdits
    /\ recipes' = MapDelete(recipes, id)
    /\ last' = [op |-> "deleteRecipe", id |-> id, ok |-> TRUE]
    /\ edits' = IF MapHas(recipes, id) THEN edits + 1 ELSE edits
    /\ UNCHANGED <<dialogState, clientState, flightState, nextRecipeId, now, pgState>>

\* Map.prototype.delete returns whether the key was present.
deleteRecipe(id) ==
    /\ MapHas(recipes, id) => edits < MaxEdits
    /\ recipes' = MapDelete(recipes, id)
    /\ last' = [op |-> "deleteRecipe", id |-> id, ok |-> MapHas(recipes, id)]
    /\ edits' = IF MapHas(recipes, id) THEN edits + 1 ELSE edits
    /\ UNCHANGED <<dialogState, clientState, flightState, nextRecipeId, now, pgState>>

getRecipeById(id) ==
    /\ last' = [op |-> "getRecipeById", id |-> id, ret |-> GetRecipeByIdResult(recipes, id)]
    /\ UNCHANGED <<dialogState, clientState, flightState, recipes, nextRecipeId, now, edits, pgState>>

getRecipes(limit, offset) ==
    /\ last' = [op |-> "getRecipes", limit |-> limit, offset |-> offset,
                ret |-> GetRecipesResult(recipes, limit, offset)]
    /\ UNCHANGED <<dialogState, clientState, flightState, recipes, nextRecipeId, now, edits, pgState>>

searchRecipes(query, limit, offset) ==
    /\ last' = [op |-> "searchRecipes", query |-> query, limit |-> limit, offset |-> offset,
                ret |-> SearchRecipesResult(recipes, query, limit, offset)]
    /\ UNCHANGED <<dialogState, clientState, flightState, recipes, nextRecipeId, now, edits, pgState>>

filterRecipesByTags(tags, limit, offset) ==
    /\ last' = [op |-> "filterRecipesByTags", tags |-> tags, limit |-> limit,
                offset |-> offset,
                ret |-> FilterRecipesByTagsResult(recipes, tags, limit, offset)]
    /\ UNCHANGED <<dialogState, clientState, flightState, recipes, nextRecipeId, now, edits, pgState>>

sortRecipes(criteria, limit, offset) ==
    /\ last' = [op |-> "sortRecipes", criteria |-> criteria, limit |-> limit,
                offset |-> offset,
                ret |-> SortRecipesResult(recipes, criteria, limit, offset)]
    /\ UNCHANGED <<dialogState, clientState, flightState, recipes, nextRecipeId, now, edits, pgState>>

(***************************************************************************)
(* PostgresStorage: table `recipes` of src/shared/schema.ts and the        *)
(* statements the methods send.  A row is a function from the columns.     *)
(***************************************************************************)
RecipeColumns ==
    {"id", "name", "description", "ingredients", "instructions", "imageUrl", "prepTime",
     "cookTime", "servings", "tags", "authorId", "rating", "ratingCount", "createdAt"}

PgHas(rows, id) == \E i \in 1..Len(rows) : rows[i].id = id

\* findFirst({ where: eq(recipes.id, id) })
PgFindById(rows, id) ==
    IF PgHas(rows, id) THEN rows[CHOOSE i \in 1..Len(rows) : rows[i].id = id] ELSE Undefined

\* INSERT ... RETURNING: the values given for columns of the table, the
\* defaults for the others (id from the serial sequence, rating and
\* ratingCount 0); a key that is no column (updatedAt) is dropped.
PgInsertedRow(values, nextval) ==
    LET given == [c \in (DOMAIN values) \cap RecipeColumns |-> values[c]]
    IN  Spread([id |-> nextval, rating |-> 0, ratingCount |-> 0], given)

\* The serial sequence moves only when the INSERT takes the id from it.
PostgresStorage_createRecipe(data) ==
    /\ LET values == Spread(data, [createdAt |-> now, updatedAt |-> now])
           fromSeq == "id" \notin DOMAIN values
           row == PgInsertedRow(values, pgSeq + 1)
       IN  /\ pgSeq' = IF fromSeq THEN pgSeq + 1 ELSE pgSeq
           /\ IF PgHas(pgRows, row.id)
              THEN \* duplicate key value violates the primary key: the call throws
                   /\ pgRows' = pgRows
                   /\ last' = [op |-> "PostgresStorage.createRecipe", data |-> data,
                               threw |-> TRUE]
              ELSE /\ pgRows' = Append(pgRows, row)
                   /\ last' = [op |-> "PostgresStorage.createRecipe", data |-> data,
                               ret |-> row]
    /\ UNCHANGED <<dialogState, clientState, flightState, memState, now>>

PostgresStorage_getRecipeById(id) ==
    /\ last' = [op |-> "PostgresStorage.getRecipeById", id |-> id,
                ret |-> PgFindById(pgRows, id)]
    /\ UNCHANGED <<dialogState, clientState, flightState, memState, now, pgState>>

\* What deleteRecipe returns, given whether the DELETE found a row: `result`
\* is not looked at.
PgDeleteReturn(found) == TRUE

\* DELETE FROM recipes WHERE id = $1
PostgresStorage_deleteRecipe(id) ==
    /\ pgRows' = SelectSeq(pgRows, LAMBDA row : row.id # id)
    /\ last' = [op |-> "PostgresStorage.deleteRecipe", id |-> id,
                ok |-> PgDeleteReturn(PgHas(pgRows, id))]
    /\ UNCHANGED <<dialogState, clientState, flightState, memState, now, pgSeq>>

\* findMany({ where, limit, offset }) without orderBy: the rows that match,
\* in the order the table is scanned (pgRows), from the offset on and no more
\* than the limit.  Limit and offset are not negative here.
PgFindMany(rows, matching, limit, offset) ==
    LET found == Filter(rows, {i \in 1..Len(rows) : matching[i]})
    IN  SubSeq(found, offset + 1, Min({offset + limit, Len(found)}))

PgAllRows(rows) == [i \in 1..Len(rows) |-> TRUE]

\* ilike(column, `%${query}%`) for a query without %, _ and \
ILikeContains(text, query) == Includes(ToLowerCase(text), ToLowerCase(query))

PgSearchMatches(row, query) ==
    \/ ILikeContains(row.name, query)
    \/ ILikeContains(row.description, query)

\* recipes.tags @> tags
PgArrayContains(row, tags) == Range(tags) \subseteq Range(row.tags)

PostgresStorage_getRecipes(limit, offset) ==
    /\ last' = [op |-> "PostgresStorage.getRecipes", limit |-> limit, offset |-> offset,
                ret |-> PgFindMany(pgRows, PgAllRows(pgRows), limit, offset)]
    /\ UNCHANGED <<dialogState, clientState, flightState, memState, now, pgState>>

PostgresStorage_searchRecipes(query, limit, offset) ==
    /\ last' = [op |-> "PostgresStorage.searchRecipes", query |-> query, limit |-> limit,
                offset |-> offset,
                ret |-> PgFindMany(pgRows,
                                   [i \in 1..Len(pgRows) |-> PgSearchMatches(pgRows[i], query)],
                                   limit, offset)]
    /\ UNCHANGED <<dialogState, clientState, flightState, memState, now, pgState>>

\* arrayContains throws for an empty array of values
PostgresStorage_filterRecipesByTags(tags, limit, offset) ==
    /\ last' = IF Len(tags) = 0
               THEN [op |-> "PostgresStorage.filterRecipesByTags", tags |-> tags,
                     limit |-> limit, offset |-> offset, threw |-> TRUE]
               ELSE [op |-> "PostgresStorage.filterRecipesByTags", tags |-> tags,
                     limit |-> limit, offset |-> offset,
                     ret |-> PgFindMany(pgRows,
                                        [i \in 1..Len(pgRows) |->
                                            PgArrayContains(pgRows[i], tags)],
                                        limit, offset)]
    /\ UNCHANGED <<dialogState, clientState, flightState, memState, now, pgState>>

\* The criteria are not looked at.
PostgresStorage_sortRecipes(criteria, limit, offset) ==
    /\ last' = [op |-> "PostgresStorage.sortRecipes", criteria |-> criteria,
                limit |-> limit, offset |-> offset,
                ret |-> PgFindMany(pgRows, PgAllRows(pgRows), limit, offset)]
    /\ UNCHANGED <<dialogState, clientState, flightState, memState, now, pgState>>

(***************************************************************************)
(* GET /api/recipes.  req.query is a function from the parameters the URL  *)
(* carries to their strings; `storage` is the MemStorage.                  *)
(***************************************************************************)
Digits == "0123456789"

IsDigit(c) == IndexIn(Digits, c) > 0

RECURSIVE DigitsValue(_, _, _)
DigitsValue(s, first, end) ==
    IF end < first THEN 0
    ELSE 10 * DigitsValue(s, first, end - 1) + (IndexIn(Digits, CharAt(s, end)) - 1)

NaN == [nan |-> TRUE, value |-> 0]

\* parseInt: leading blanks, a sign, then the digits up to the first
\* character that is none; NaN without a digit, and for undefined.
ParseInt(q, key) ==
    IF key \notin DOMAIN q THEN NaN
    ELSE LET s == q[key]
             inked == {i \in 1..Len(s) : ~IsBlankChar(CharAt(s, i))}
             start == IF inked = {} THEN Len(s) + 1 ELSE Min(inked)
             signed == start <= Len(s) /\ CharAt(s, start) \in {"-", "+"}
             first == IF signed THEN start + 1 ELSE start
             others == {i \in first..Len(s) : ~IsDigit(CharAt(s, i))}
             end == IF others = {} THEN Len(s) ELSE Min(others) - 1
             magnitude == DigitsValue(s, first, end)
         IN  IF end < first THEN NaN
             ELSE [nan |-> FALSE,
                   value |-> IF signed /\ CharAt(s, start) = "-" THEN 0 - magnitude
                             ELSE magnitude]

\* `n || fallback`: NaN and 0 are falsy
NumberOr(n, fallback) == IF n.nan \/ n.value = 0 THEN fallback ELSE n.value

DefaultLimit == 6

\* `s || fallback` for a parameter: undefined and '' are falsy
Truthy(q, key) == key \in DOMAIN q /\ q[key] # ""

\* The branches with the test of the tags before the test of the search.
StorageCallTagsFirst(q) ==
    LET limit == NumberOr(ParseInt(q, "limit"), DefaultLimit)
        offset == NumberOr(ParseInt(q, "offset"), 0)
        tags == IF Truthy(q, "tags") THEN Split(q.tags) ELSE <<>>
        sort == IF Truthy(q, "sort") THEN q.sort ELSE "newest"
    IN  IF Len(tags) > 0
        THEN [fn |-> "filterRecipesByTags", tags |-> tags, limit |-> limit,
              offset |-> offset]
        ELSE IF Truthy(q, "search") /\ Trim(q.search) # ""
        THEN [fn |-> "searchRecipes", query |-> q.search, limit |-> limit,
              offset |-> offset]
        ELSE [fn |-> "sortRecipes", criteria |-> sort, limit |-> limit, offset |-> offset]

\* The one call of the storage the handler makes for a query.
StorageCall(q) ==
    LET limit == NumberOr(ParseInt(q, "limit"), DefaultLimit)
        offset == NumberOr(ParseInt(q, "offset"), 0)
        tags == IF Truthy(q, "tags") THEN Split(q.tags) ELSE <<>>
        sort == IF Truthy(q, "sort") THEN q.sort ELSE "newest"
    IN  IF Truthy(q, "search") /\ Trim(q.search) # ""
        THEN [fn |-> "searchRecipes", query |-> q.search, limit |-> limit,
              offset |-> offset]
        ELSE IF Len(tags) > 0
        THEN [fn |-> "filterRecipesByTags", tags |-> tags, limit |-> limit,
              offset |-> offset]
        ELSE [fn |-> "sortRecipes", criteria |-> sort, limit |-> limit, offset |-> offset]

StorageCallResult(m, call) ==
    CASE call.fn = "searchRecipes" ->
             SearchRecipesResult(m, call.query, call.limit, call.offset)
      [] call.fn = "filterRecipesByTags" ->
             FilterRecipesByTagsResult(m, call.tags, call.limit, call.offset)
      [] call.fn = "sortRecipes" ->
             SortRecipesResult(m, call.criteria, call.limit, call.offset)

\* app.get("/api/recipes"): none of the three calls throws, res.json answers 200.
GetApiRecipes(q) ==
    /\ last' = [op |-> "GET /api/recipes", req |-> q, call |-> StorageCall(q),
                status |-> 200, body |-> StorageCallResult(recipes, StorageCall(q))]
    /\ UNCHANGED <<dialogState, clientState, flightState, recipes, nextRecipeId, now, edits, pgState>>

\* The queries GET /api/recipes is explored with.
RequestQueries ==
    { EmptyObject,
      [sort |-> "az"],
      [tags |-> "Vegan", sort |-> "za"],
      [search |-> "Avocado", tags |-> "Vegan", sort |-> "az"],
      [search |-> "BANANA", sort |-> "oldest"],
      [search |-> "  ", tags |-> "Vegan,Dessert", sort |-> "popular"],
      [search |-> "", tags |-> "", sort |-> "popular"],
      [search |-> " ", tags |-> "", sort |-> ""],
      [limit |-> "2", offset |-> "1", search |-> "VEGAN", tags |-> "Dessert"],
      [limit |-> "0", offset |-> "x", tags |-> "Vegan"],
      [limit |-> " 3px", offset |-> "-1", sort |-> "rating"],
      [limit |-> "6", sort |-> "newest"] }

\* Queries whose sort is none of the five criteria.
UnknownSortQueries ==
    { [sort |-> "rating"],
      [limit |-> "2", offset |-> "1", sort |-> "Newest"] }

\* Queries whose limit and offset are integers of every sign.
LimitQueries ==
    {[limit |-> l, offset |-> o] : l \in {"-1", "0", "2"}, o \in {"-1", "0", "1"}}
        \cup { [limit |-> "-1", search |-> "Avocado"],
               [limit |-> "-2", offset |-> "1", tags |-> "Vegan"] }

(***************************************************************************)
(* POST /api/recipes and the three handlers of /api/recipes/:id.  With the *)
(* MemStorage every awaited call is already settled, so a handler runs to  *)
(* its response before another request is taken up: each is one step.      *)
(***************************************************************************)
Without(f, keys) == [k \in (DOMAIN f) \ keys |-> f[k]]

\* insertRecipeSchema: the columns less the four omitted ones
InsertRecipeKeys == RecipeColumns \ {"id", "createdAt", "rating", "ratingCount"}

\* A column that is notNull and has no default is required; imageUrl is
\* neither, so it may be left out or be null.
InsertRecipeSchemaAccepts(body) ==
    /\ (InsertRecipeKeys \ {"imageUrl"}) \subseteq DOMAIN body
    /\ "imageUrl" \in DOMAIN body =>
           \/ "string" \in DOMAIN body.imageUrl
           \/ "null" \in DOMAIN body.imageUrl

\* parse returns the keys of the schema and drops the others
InsertRecipeSchemaParse(body) == [k \in (DOMAIN body) \cap InsertRecipeKeys |-> body[k]]

\* The parsed body as it is, with the author the request named.
ValidatedDataKeepsAuthor(body) == InsertRecipeSchemaParse(body)

\* validatedData.authorId = 1
ValidatedData(body) == Spread(InsertRecipeSchemaParse(body), [authorId |-> 1])

PostApiRecipes(body) ==
    IF InsertRecipeSchemaAccepts(body)
    THEN LET id == nextRecipeId
             recipe == NewRecipe(ValidatedData(body), id, now)
         IN  /\ nextRecipeId' = nextRecipeId + 1
             /\ recipes' = MapSet(recipes, id, recipe)
             /\ last' = [op |-> "POST /api/recipes", req |-> [body |-> body],
                         status |-> 201, json |-> recipe]
             /\ UNCHANGED <<dialogState, clientState, flightState, now, edits, pgState>>
    ELSE /\ last' = [op |-> "POST /api/recipes", req |-> [body |-> body],
                     status |-> 400, message |-> "Invalid recipe data"]
         /\ UNCHANGED <<dialogState, clientState, flightState, recipes, nextRecipeId, now, edits, pgState>>

\* The lookup answering with the oldest entry when the key is not there.
RecipeOfParamOrOldest(m, params) ==
    LET id == ParseInt(params, "id")
    IN  IF id.nan \/ Len(m) = 0 THEN Undefined
        ELSE IF MapHas(m, id.value) THEN MapGet(m, id.value) ELSE m[1].val

\* storage.getRecipeById(parseInt(req.params.id)); no key of the Map is NaN
RecipeOfParam(m, params) ==
    LET id == ParseInt(params, "id")
    IN  IF id.nan THEN Undefined ELSE MapGet(m, id.value)

NotFound(op, req) == [op |-> op, req |-> req, status |-> 404, message |-> "Recipe not found"]

GetApiRecipesId(params) ==
    /\ LET recipe == RecipeOfParam(recipes, params)
           req == [params |-> params]
       IN  last' = IF recipe = Undefined THEN NotFound("GET /api/recipes/:id", req)
                   ELSE [op |-> "GET /api/recipes/:id", req |-> req, status |-> 200,
                         json |-> recipe]
    /\ UNCHANGED <<dialogState, clientState, flightState, recipes, nextRecipeId, now, edits, pgState>>

\* No statement of the handler throws a ZodError: the body is not parsed.
PutApiRecipesId(params, body) ==
    LET recipe == RecipeOfParam(recipes, params)
        req == [params |-> params, body |-> body]
        id == ParseInt(params, "id").value
    IN  IF recipe = Undefined
        THEN /\ last' = NotFound("PUT /api/recipes/:id", req)
             /\ UNCHANGED <<dialogState, clientState, flightState, recipes, nextRecipeId, now, edits, pgState>>
        ELSE /\ edits < MaxEdits
             /\ LET updatedRecipe == UpdatedRecipe(MapGet(recipes, id), body)
                IN  /\ recipes' = MapSet(recipes, id, updatedRecipe)
                    /\ last' = [op |-> "PUT /api/recipes/:id", req |-> req, status |-> 200,
                                json |-> updatedRecipe]
             /\ edits' = edits + 1
             /\ UNCHANGED <<dialogState, clientState, flightState, nextRecipeId, now, pgState>>

DeleteApiRecipesId(params) ==
    LET recipe == RecipeOfParam(recipes, params)
        req == [params |-> params]
        id == ParseInt(params, "id").value
    IN  IF recipe = Undefined
        THEN /\ last' = NotFound("DELETE /api/recipes/:id", req)
             /\ UNCHANGED <<dialogState, clientState, flightState, recipes, nextRecipeId, now, edits, pgState>>
        ELSE /\ edits < MaxEdits
             /\ recipes' = MapDelete(recipes, id)
             /\ last' = [op |-> "DELETE /api/recipes/:id", req |-> req, status |-> 204]
             /\ edits' = edits + 1
             /\ UNCHANGED <<dialogState, clientState, flightState, nextRecipeId, now, pgState>>

\* The bodies POST /api/recipes is explored with: two that the schema
\* accepts, one of them with keys that are none of the schema's and an
\* author other than 1; bodies without a required key; imageUrl left out,
\* null, and a number.
PostBodies ==
    { VeganCake,
      ToastAgain,
      Without(VeganCake, {"imageUrl"}),
      Spread(VeganCake, [imageUrl |-> JsonNull]),
      Without(VeganCake, {"authorId"}),
      Without(ToastAgain, {"name"}),
      Spread(ToastAgain, [imageUrl |-> JsonNumber(42)]),
      EmptyObject }

\* The bodies PUT /api/recipes/:id is explored with.
PutBodies ==
    { EmptyObject,
      [name |-> "Zucchini Bread"],
      [id |-> 1],
      [imageUrl |-> JsonNumber(42)] }

\* req.params of /api/recipes/:id: a seed recipe, the first recipe created
\* later, an id never assigned, and no number.
IdParams == {[id |-> "2"], [id |-> "7"], [id |-> "8"], [id |-> "abc"]}

(***************************************************************************)
(* PUT and DELETE /api/recipes/:id with their awaits.  A handler runs up   *)
(* to an await, the storage method it has called having run to its end,   *)
(* and is resumed later: the steps of another request's handler may come   *)
(* in between.  handlers[r] holds where the handler of request r stands,  *)
(* with the values of its variables, and in the end its response.         *)
(***************************************************************************)
\* updateRecipe merging into the recipe the handler got from getRecipeById
ExistingRecipeOfCheck(m, h) == h.recipe

\* this.recipes.get(id) in updateRecipe
ExistingRecipe(m, h) == MapGet(m, h.id.value)

\* The handler up to `await storage.getRecipeById(id)`
HandlerBegins(r, op, params, body) ==
    /\ handlers[r] = Idle
    /\ handlers' = [handlers EXCEPT ![r] =
           [pc |-> "await getRecipeById", op |-> op, params |-> params, body |-> body,
            id |-> ParseInt(params, "id"), recipe |-> RecipeOfParam(recipes, params)]]
    /\ storageCalls' = Append(storageCalls,
           [rid |-> r, fn |-> "getRecipeById", id |-> ParseInt(params, "id"),
            ret |-> RecipeOfParam(recipes, params)])
    /\ UNCHANGED <<dialogState, clientState, recipes, nextRecipeId, now, edits, pgState, last>>

PutBegins(r, params, body) == HandlerBegins(r, "PUT /api/recipes/:id", params, body)

DeleteBegins(r, params) == HandlerBegins(r, "DELETE /api/recipes/:id", params, EmptyObject)

\* if (!recipe) return res.status(404).json(...)
RespondsNotFound(r) ==
    /\ handlers' = [handlers EXCEPT ![r] =
           [pc |-> "done", op |-> @.op, params |-> @.params, body |-> @.body,
            status |-> 404, message |-> "Recipe not found"]]
    /\ UNCHANGED <<storageCalls, recipes, edits>>

\* From the await of getRecipeById up to `await storage.updateRecipe(id, req.body)`
PutResumes(r) ==
    LET h == handlers[r]
        existingRecipe == ExistingRecipe(recipes, h)
        updatedRecipe == IF existingRecipe = Undefined THEN Undefined
                         ELSE UpdatedRecipe(existingRecipe, h.body)
    IN  /\ h.pc = "await getRecipeById" /\ h.op = "PUT /api/recipes/:id"
        /\ IF h.recipe = Undefined
           THEN RespondsNotFound(r)
           ELSE /\ recipes' = IF existingRecipe = Undefined THEN recipes
                              ELSE MapSet(recipes, h.id.value, updatedRecipe)
                /\ edits' = IF existingRecipe = Undefined THEN edits ELSE edits + 1
                /\ storageCalls' = Append(storageCalls,
                       [rid |-> r, fn |-> "updateRecipe", id |-> h.id, updates |-> h.body,
                        existing |-> existingRecipe, ret |-> updatedRecipe])
                /\ handlers' = [handlers EXCEPT ![r] =
                       [pc |-> "await updateRecipe", op |-> h.op, params |-> h.params,
                        body |-> h.body, id |-> h.id, updatedRecipe |-> updatedRecipe]]
        /\ UNCHANGED <<dialogState, clientState, nextRecipeId, now, pgState, last>>

\* res.json(updatedRecipe)
PutResponds(r) ==
    LET h == handlers[r]
    IN  /\ h.pc = "await updateRecipe"
        /\ handlers' = [handlers EXCEPT ![r] =
               [pc |-> "done", op |-> h.op, params |-> h.params, body |-> h.body,
                status |-> 200, json |-> h.updatedRecipe]]
        /\ UNCHANGED <<dialogState, clientState, storageCalls, recipes, nextRecipeId, now, edits, pgState,
                       last>>

\* From the await of getRecipeById up to `await storage.deleteRecipe(id)`
DeleteResumes(r) ==
    LET h == handlers[r]
    IN  /\ h.pc = "await getRecipeById" /\ h.op = "DELETE /api/recipes/:id"
        /\ IF h.recipe = Undefined
           THEN RespondsNotFound(r)
           ELSE /\ recipes' = MapDelete(recipes, h.id.value)
                /\ edits' = IF MapHas(recipes, h.id.value) THEN edits + 1 ELSE edits
                /\ storageCalls' = Append(storageCalls,
                       [rid |-> r, fn |-> "deleteRecipe", id |-> h.id,
                        deleted |-> MapHas(recipes, h.id.value)])
                /\ handlers' = [handlers EXCEPT ![r] =
                       [pc |-> "await deleteRecipe", op |-> h.op, params |-> h.params,
                        body |-> h.body, id |-> h.id]]
        /\ UNCHANGED <<dialogState, clientState, nextRecipeId, now, pgState, last>>

\* res.status(204).send()
DeleteResponds(r) ==
    LET h == handlers[r]
    IN  /\ h.pc = "await deleteRecipe"
        /\ handlers' = [handlers EXCEPT ![r] =
               [pc |-> "done", op |-> h.op, params |-> h.params, body |-> h.body,
                status |-> 204]]
        /\ UNCHANGED <<dialogState, clientState, storageCalls, recipes, nextRecipeId, now, edits, pgState,
                       last>>

\* The requests the handlers in progress are explored with.
FlightParams == {[id |-> "2"], [id |-> "7"]}

FlightBodies ==
    { [name |-> "Zucchini Bread", cookTime |-> 45],
      [name |-> "Banana Bread", servings |-> 8] }

(***************************************************************************)
(* The home page: SearchAndCreate (its debounce of the search box),        *)
(* HomePage (its debounce of searchTerm, its handlers) and the infinite    *)
(* query of HomePage.  An event (a change of the search box, a click, a     *)
(* timer, a response) is one step: the handler, the renders that its state  *)
(* changes cause, and the effects of those renders.                        *)
(***************************************************************************)
ClearTimeout(ts, id) == {t \in ts : t.id # id}

\* An id no pending timer has and no cleanup holds
FreshTimerId(ts, held) ==
    LET used == {t.id : t \in ts} \cup held
    IN  Min({i \in 1..(Cardinality(used) + 1) : i \notin used})

\* The effect of SearchAndCreate: its cleanup clears the timer of its last
\* run, then it sets a timer that will call onSearch with the text of now.
SearchEffectTimerId(ts) == FreshTimerId(ClearTimeout(ts, searchTimerId), {debounceTimerId})

AfterSearchEffect(ts, text) ==
    ClearTimeout(ts, searchTimerId)
        \cup {Timer(SearchEffectTimerId(ts), "SearchAndCreate", SearchInputDelay, text)}

\* The effect of HomePage, likewise, with setDebouncedSearchTerm(searchTerm).
DebounceEffectTimerId(ts, held) == FreshTimerId(ClearTimeout(ts, debounceTimerId), held)

\* The same effect with a callback that sets the term the page shows already
AfterDebounceEffectStaleTerm(ts, held, term) ==
    ClearTimeout(ts, debounceTimerId)
        \cup {Timer(DebounceEffectTimerId(ts, held), "HomePage", SearchTermDelay,
                    debouncedSearchTerm)}

AfterDebounceEffect(ts, held, term) ==
    ClearTimeout(ts, debounceTimerId)
        \cup {Timer(DebounceEffectTimerId(ts, held), "HomePage", SearchTermDelay, term)}

\* Whether the data held for a key is stale when the page turns to the key.
\* The defaults of the QueryClient decide it; as the offset is to start from
\* zero on every change, held data counts as stale.
QueryIsStale(key) == TRUE

IsFetching(key) == \E f \in inflight : f.key = key

FetchOf(key) == CHOOSE f \in inflight : f.key = key

\* The observer turning to a key fetches it when it holds no data for it or
\* stale data, unless the key is being fetched already: the first page from
\* initialPageParam, and as many pages as were held.
InflightAfterRender(newKey) ==
    IF newKey = CurrentKey \/ IsFetching(newKey) THEN inflight
    ELSE IF newKey \notin DOMAIN cache THEN inflight \cup {Fetch(newKey, 0, <<>>, 1, "load")}
    ELSE IF QueryIsStale(newKey)
    THEN inflight \cup {Fetch(newKey, 0, <<>>, Len(cache[newKey]), "load")}
    ELSE inflight

\* The offsets a fetch has requested up to now: those of the pages it has
\* got, and the one it waits for.
OffsetsOf(f) ==
    [i \in 1..(Len(f.acc) + 1) |-> f.offset - (Len(f.acc) + 1 - i) * PageSize]

\* issued holds the offsets requested for the configuration of the page by
\* the fetches that serve the page since it turned to the configuration: a
\* fetch under way that the observer joins is among them.
IssuedAfterRender(newKey) ==
    IF newKey = CurrentKey THEN issued
    ELSE IF IsFetching(newKey) THEN OffsetsOf(FetchOf(newKey))
    ELSE IF InflightAfterRender(newKey) = inflight THEN <<>>
    ELSE <<0>>

\* HomePage rendering with new state.  SearchAndCreate renders with it and
\* gets a new onSearch function, so its effect runs again; the effect of
\* HomePage runs again when searchTerm has changed.
HomePageRenders(term, debounced, tags, sort, ts) ==
    LET ts1 == AfterSearchEffect(ts, searchInput)
        id1 == SearchEffectTimerId(ts)
        newKey == QueryKey(debounced, tags, sort)
    IN  /\ searchTerm' = term
        /\ debouncedSearchTerm' = debounced
        /\ selectedTags' = tags
        /\ sortOption' = sort
        /\ searchTimerId' = id1
        /\ IF term # searchTerm
           THEN /\ timers' = AfterDebounceEffect(ts1, {id1}, term)
                /\ debounceTimerId' = DebounceEffectTimerId(ts1, {id1})
           ELSE /\ timers' = ts1
                /\ debounceTimerId' = debounceTimerId
        /\ inflight' = InflightAfterRender(newKey)
        /\ issued' = IssuedAfterRender(newKey)
        /\ UNCHANGED <<searchInput, inputAge, cache>>

\* The cache has room for the key
CanObserve(key) ==
    Cardinality(DOMAIN cache \cup {f.key : f \in inflight} \cup {key}) <= MaxCachedKeys

\* onChange of the search box
handleSearchInput(value) ==
    /\ value # searchInput
    /\ searchInput' = value
    /\ inputAge' = 0
    /\ timers' = AfterSearchEffect(timers, value)
    /\ searchTimerId' = SearchEffectTimerId(timers)
    /\ UNCHANGED <<searchTerm, debouncedSearchTerm, selectedTags, sortOption,
                   debounceTimerId, cache, inflight, issued>>
    /\ UNCHANGED <<serverState, dialogState>>

\* The timer of SearchAndCreate: onSearch(searchInput), that is
\* setSearchTerm; setting the state to the value it has renders nothing.
SearchTimerFires ==
    \E t \in timers :
        /\ t.owner = "SearchAndCreate" /\ t.due = 0
        /\ IF t.value = searchTerm
           THEN /\ timers' = timers \ {t}
                /\ UNCHANGED <<searchInput, searchTimerId, searchTerm, debouncedSearchTerm,
                               selectedTags, sortOption, debounceTimerId, inputAge, cache,
                               inflight, issued>>
           ELSE HomePageRenders(t.value, debouncedSearchTerm, selectedTags, sortOption,
                                timers \ {t})
        /\ UNCHANGED <<serverState, dialogState>>

\* The timer of HomePage: setDebouncedSearchTerm(searchTerm)
DebounceTimerFires ==
    \E t \in timers :
        /\ t.owner = "HomePage" /\ t.due = 0
        /\ IF t.value = debouncedSearchTerm
           THEN /\ timers' = timers \ {t}
                /\ UNCHANGED <<searchInput, searchTimerId, searchTerm, debouncedSearchTerm,
                               selectedTags, sortOption, debounceTimerId, inputAge, cache,
                               inflight, issued>>
           ELSE /\ CanObserve(QueryKey(t.value, selectedTags, sortOption))
                /\ HomePageRenders(searchTerm, t.value, selectedTags, sortOption,
                                   timers \ {t})
        /\ UNCHANGED <<serverState, dialogState>>

ToggledTags(prev, tag) ==
    IF tag \in Range(prev) THEN SelectSeq(prev, LAMBDA t : t # tag) ELSE Append(prev, tag)

handleTagChange(tag) ==
    /\ CanObserve(QueryKey(debouncedSearchTerm, ToggledTags(selectedTags, tag), sortOption))
    /\ HomePageRenders(searchTerm, debouncedSearchTerm, ToggledTags(selectedTags, tag),
                       sortOption, timers)
    /\ UNCHANGED <<serverState, dialogState>>

handleSortChange(value) ==
    /\ value # sortOption
    /\ CanObserve(QueryKey(debouncedSearchTerm, selectedTags, value))
    /\ HomePageRenders(searchTerm, debouncedSearchTerm, selectedTags, value, timers)
    /\ UNCHANGED <<serverState, dialogState>>

\* What RecipeGrid shows: the spinner while loading, the empty state with
\* Clear All Filters, or the cards with Load More when there is a next page.
IsLoading == CurrentKey \notin DOMAIN cache

IsFetchingNextPage == IsFetching(CurrentKey) /\ FetchOf(CurrentKey).mode = "next"

RECURSIVE Sum(_)
Sum(lens) == IF Len(lens) = 0 THEN 0 ELSE lens[1] + Sum(Tail(lens))

\* getNextPageParam giving an offset after every page that holds a recipe
HasNextPageUnlessEmpty(pages) == pages[Len(pages)] > 0

\* getNextPageParam: allPages.length * PAGE_SIZE when the last page is full
HasNextPage(pages) == pages[Len(pages)] = PageSize

\* getNextPageParam giving the offset of the last page again
NextPageParamOfLastPage(pages) == (Len(pages) - 1) * PageSize

NextPageParam(pages) == Len(pages) * PageSize

\* Clear All Filters, shown when nothing is loading and no recipe is listed:
\* none was fetched, or none of the fetched is a favourite.
handleClearFilters ==
    /\ ~IsLoading /\ ~IsFetchingNextPage
    /\ <<searchTerm, selectedTags, sortOption>> # <<"", <<>>, "newest">>
    /\ CanObserve(QueryKey(debouncedSearchTerm, <<>>, "newest"))
    /\ HomePageRenders("", debouncedSearchTerm, <<>>, "newest", timers)
    /\ UNCHANGED <<serverState, dialogState>>

\* Load More: fetchNextPage(), which drops a refetch that is under way
onLoadMore ==
    /\ ~IsLoading /\ ~IsFetchingNextPage
    /\ Sum(cache[CurrentKey]) > 0
    /\ HasNextPage(cache[CurrentKey])
    /\ Len(cache[CurrentKey]) < MaxPagesHeld /\ Len(issued) < MaxIssued
    /\ inflight' = {f \in inflight : f.key # CurrentKey}
                       \cup {Fetch(CurrentKey, NextPageParam(cache[CurrentKey]), <<>>, 1, "next")}
    /\ issued' = Append(issued, NextPageParam(cache[CurrentKey]))
    /\ timers' = AfterSearchEffect(timers, searchInput)
    /\ searchTimerId' = SearchEffectTimerId(timers)
    /\ UNCHANGED <<searchInput, searchTerm, debouncedSearchTerm, selectedTags, sortOption,
                   debounceTimerId, inputAge, cache>>
    /\ UNCHANGED <<serverState, dialogState>>

\* onSuccess of the create dialog: refetch(), which fetches the held pages
\* again from the first when there is data (and joins the fetch under way
\* when there is none), then closes the dialog.
handleCreateSuccess ==
    /\ Len(issued) < MaxIssued
    /\ IF IsLoading
       THEN UNCHANGED <<inflight, issued>>
       ELSE /\ inflight' = {f \in inflight : f.key # CurrentKey}
                               \cup {Fetch(CurrentKey, 0, <<>>, Len(cache[CurrentKey]), "load")}
            /\ issued' = Append(issued, 0)
    /\ timers' = AfterSearchEffect(timers, searchInput)
    /\ searchTimerId' = SearchEffectTimerId(timers)
    /\ UNCHANGED <<searchInput, searchTerm, debouncedSearchTerm, selectedTags, sortOption,
                   debounceTimerId, inputAge, cache>>
    /\ UNCHANGED <<serverState, dialogState>>

CacheSet(c, key, pages) == [k \in DOMAIN c \cup {key} |-> IF k = key THEN pages ELSE c[k]]

\* A response with n recipes.  A fetch of the next page adds the page; a
\* fetch from the first page goes on to the next page while it is to get
\* more pages and getNextPageParam gives an offset, and then replaces the
\* pages held.  HomePage renders when its query has new data.
Respond(f, n) ==
    /\ f \in inflight
    /\ LET acc == Append(f.acc, n)
           goesOn == f.mode = "load" /\ Len(acc) < f.want /\ HasNextPage(acc)
           done == f.key = CurrentKey /\ ~goesOn
       IN  /\ inflight' = (inflight \ {f})
                   \cup (IF goesOn
                         THEN {Fetch(f.key, NextPageParam(acc), acc, f.want, "load")}
                         ELSE {})
           /\ issued' = IF goesOn /\ f.key = CurrentKey
                        THEN Append(issued, NextPageParam(acc)) ELSE issued
           /\ cache' = IF goesOn THEN cache
                       ELSE IF f.mode = "next" THEN CacheSet(cache, f.key, cache[f.key] \o acc)
                       ELSE CacheSet(cache, f.key, acc)
           /\ timers' = IF done THEN AfterSearchEffect(timers, searchInput) ELSE timers
           /\ searchTimerId' = IF done THEN SearchEffectTimerId(timers) ELSE searchTimerId
    /\ UNCHANGED <<searchInput, searchTerm, debouncedSearchTerm, selectedTags, sortOption,
                   debounceTimerId, inputAge>>
    /\ UNCHANGED <<serverState, dialogState>>

\* tags.join(",")
RECURSIVE Join(_)
Join(tags) ==
    IF Len(tags) = 0 THEN ""
    ELSE IF Len(tags) = 1 THEN tags[1]
    ELSE tags[1] \o "," \o Join(Tail(tags))

\* The parameters queryFn appends for a query key and a pageParam
QueryOf(key, pageParam) ==
    Spread(Spread([limit |-> ToString(PageSize), offset |-> ToString(pageParam),
                   sort |-> key.sort],
                  IF key.search # "" THEN [search |-> key.search] ELSE EmptyObject),
           IF Len(key.tags) > 0 THEN [tags |-> Join(key.tags)] ELSE EmptyObject)

\* What GET /api/recipes answers to them from the MemStorage
ServerAnswer(key, pageParam) ==
    StorageCallResult(recipes, StorageCall(QueryOf(key, pageParam)))

\* The response to a request that is out, from the server
RespondFromServer(f) == Respond(f, Len(ServerAnswer(f.key, f.offset)))

\* A query no component observes is removed from the cache after gcTime.
GarbageCollect(key) ==
    /\ key \in DOMAIN cache
    /\ key # CurrentKey
    /\ ~IsFetching(key)
    /\ cache' = [k \in DOMAIN cache \ {key} |-> cache[k]]
    /\ UNCHANGED <<searchInput, searchTimerId, searchTerm, debouncedSearchTerm, selectedTags,
                   sortOption, debounceTimerId, timers, inputAge, inflight, issued>>
    /\ UNCHANGED <<serverState, dialogState>>

\* Time passes, up to the next timer that is due.
Elapse ==
    /\ LET d == Min({TimeStep} \cup {t.due : t \in timers})
       IN  /\ timers' = {Timer(t.id, t.owner, t.due - d, t.value) : t \in timers}
           /\ inputAge' = Min({SearchTermDelay, inputAge + d})
    /\ UNCHANGED <<searchInput, searchTimerId, searchTerm, debouncedSearchTerm, selectedTags,
                   sortOption, debounceTimerId, cache, inflight, issued>>
    /\ UNCHANGED <<serverState, dialogState>>

\* What is typed, chosen and answered.
SearchTexts == {"", "Avo", "Avocado"}

TagChoices == {"Vegan"}

SortChoices == {"newest", "az"}

ResponseLengths == {2, PageSize}

(***************************************************************************)
(* CreateRecipeDialog: the list of ingredients and the ingredient being    *)
(* edited.  Indices count from 0, as in the code.                          *)
(***************************************************************************)
MaxIngredients == 3

\* What is typed into the two inputs.
IngredientInputs == {"flour", " salt ", "eggs", "  "}

TempTexts == {"rye flour"}

\* currentIngredients.filter((_, i) => i !== index)
RemoveAt(items, index) ==
    [k \in 1..(Len(items) - 1) |-> IF k <= index THEN items[k] ELSE items[k + 1]]

\* items.splice(index, 0, item)
InsertAt(items, index, item) ==
    SubSeq(items, 1, index) \o <<item>> \o SubSeq(items, index + 1, Len(items))

\* [items[i], items[j]] = [items[j], items[i]]
Swapped(items, i, j) == [items EXCEPT ![i + 1] = items[j + 1], ![j + 1] = items[i + 1]]

\* The index of the ingredient being edited after an item was dragged from
\* `source` to `destination`
IndexAfterDrag(editing, source, destination) ==
    IF source = editing THEN destination
    ELSE IF source < editing /\ destination >= editing THEN editing - 1
    ELSE IF source > editing /\ destination <= editing THEN editing + 1
    ELSE editing

\* The row of the ingredient being edited is rendered: it shows the input
\* and the button that confirms.
EditRowShown ==
    /\ ~editingIngredientIndex.null
    /\ editingIngredientIndex.index < Len(ingredients)

\* onChange of the input of new ingredients; what is typed is not in the list
setIngredientInput(value) ==
    /\ value # ingredientInput
    /\ Trim(value) \notin Range(ingredients)
    /\ ingredientInput' = value
    /\ UNCHANGED <<ingredients, editingIngredientIndex, tempIngredient, editedItem>>
    /\ UNCHANGED <<clientState, serverState>>

addIngredient ==
    /\ Len(ingredients) < MaxIngredients
    /\ Trim(ingredientInput) # ""
    /\ ingredients' = Append(ingredients, Trim(ingredientInput))
    /\ ingredientInput' = ""
    /\ UNCHANGED <<editingIngredientIndex, tempIngredient, editedItem>>
    /\ UNCHANGED <<clientState, serverState>>

removeIngredient(index) ==
    /\ index \in 0..(Len(ingredients) - 1)
    /\ ingredients' = RemoveAt(ingredients, index)
    /\ UNCHANGED <<ingredientInput, editingIngredientIndex, tempIngredient, editedItem>>
    /\ UNCHANGED <<clientState, serverState>>

\* The drop of a dragged row: without a destination nothing is done.
onDragEndIngredients(result) ==
    /\ result.source.index \in 0..(Len(ingredients) - 1)
    /\ IF result.destination = Undefined
       THEN UNCHANGED <<ingredients, editingIngredientIndex>>
       ELSE LET reorderedItem == ingredients[result.source.index + 1]
                items == InsertAt(RemoveAt(ingredients, result.source.index),
                                  result.destination.index, reorderedItem)
            IN  /\ result.destination.index \in 0..(Len(ingredients) - 1)
                /\ ingredients' = items
                /\ editingIngredientIndex' =
                       IF editingIngredientIndex.null THEN editingIngredientIndex
                       ELSE Editing(IndexAfterDrag(editingIngredientIndex.index,
                                                   result.source.index,
                                                   result.destination.index))
    /\ UNCHANGED <<ingredientInput, tempIngredient, editedItem>>
    /\ UNCHANGED <<clientState, serverState>>

\* swapIngredientUp and swapIngredientDown; no button of the dialog calls them.
swapIngredientUp(index) ==
    /\ index \in 0..(Len(ingredients) - 1)
    /\ IF index <= 0
       THEN UNCHANGED <<ingredients, editingIngredientIndex>>
       ELSE /\ ingredients' = Swapped(ingredients, index - 1, index)
            /\ editingIngredientIndex' =
                   IF editingIngredientIndex = Editing(index) THEN Editing(index - 1)
                   ELSE IF editingIngredientIndex = Editing(index - 1) THEN Editing(index)
                   ELSE editingIngredientIndex
    /\ UNCHANGED <<ingredientInput, tempIngredient, editedItem>>
    /\ UNCHANGED <<clientState, serverState>>

swapIngredientDown(index) ==
    /\ index \in 0..(Len(ingredients) - 1)
    /\ IF index >= Len(ingredients) - 1
       THEN UNCHANGED <<ingredients, editingIngredientIndex>>
       ELSE /\ ingredients' = Swapped(ingredients, index, index + 1)
            /\ editingIngredientIndex' =
                   IF editingIngredientIndex = Editing(index) THEN Editing(index + 1)
                   ELSE IF editingIngredientIndex = Editing(index + 1) THEN Editing(index)
                   ELSE editingIngredientIndex
    /\ UNCHANGED <<ingredientInput, tempIngredient, editedItem>>
    /\ UNCHANGED <<clientState, serverState>>

\* The edit button of a row that is not being edited
startEditIngredient(index) ==
    /\ index \in 0..(Len(ingredients) - 1)
    /\ editingIngredientIndex # Editing(index)
    /\ editingIngredientIndex' = Editing(index)
    /\ tempIngredient' = ingredients[index + 1]
    /\ editedItem' = ingredients[index + 1]
    /\ UNCHANGED <<ingredients, ingredientInput>>
    /\ UNCHANGED <<clientState, serverState>>

\* onChange of the input of the row being edited
setTempIngredient(value) ==
    /\ EditRowShown
    /\ value # tempIngredient
    /\ tempIngredient' = value
    /\ UNCHANGED <<ingredients, ingredientInput, editingIngredientIndex, editedItem>>
    /\ UNCHANGED <<clientState, serverState>>

\* The button that confirms the edit, in the row being edited
confirmEditIngredient ==
    /\ EditRowShown
    /\ ingredients' = [ingredients EXCEPT ![editingIngredientIndex.index + 1] = tempIngredient]
    /\ editingIngredientIndex' = NotEditing
    /\ UNCHANGED <<ingredientInput, tempIngredient, editedItem>>
    /\ UNCHANGED <<clientState, serverState>>

\* The drops a drag can end with, for a list of n rows
DropResults(n) ==
    {[source |-> [index |-> source], destination |-> [index |-> destination]] :
         source \in 0..(n - 1), destination \in 0..(n - 1)}
        \cup {[source |-> [index |-> source], destination |-> Undefined] :
                  source \in 0..(n - 1)}

(***************************************************************************)
(* The specifications.  The methods that only read are explored one family *)
(* at a time, each together with every method that writes: a read leaves   *)
(* the store as it is, so no store state is lost by it.                    *)
(***************************************************************************)
Writes ==
    \/ Tick
    \/ \E insertRecipe \in InsertRecipes :
          nextRecipeId <= MaxRecipeId /\ createRecipe(insertRecipe)
    \/ \E id \in RecipeIds, updates \in UpdatePayloads : updateRecipe(id, updates)
    \/ \E id \in RecipeIds : deleteRecipe(id)

\* create, update, delete, getById
Next ==
    \/ Writes
    \/ \E id \in RecipeIds : getRecipeById(id)

Spec == Init /\ [][Next]_vars

NextSearch ==
    \/ Writes
    \/ \E p \in Pages : getRecipes(p.limit, p.offset)
    \/ \E query \in SearchQueries, p \in Pages : searchRecipes(query, p.limit, p.offset)

SpecSearch == Init /\ [][NextSearch]_vars

NextTags ==
    \/ Writes
    \/ \E tags \in TagLists, p \in Pages : filterRecipesByTags(tags, p.limit, p.offset)

SpecTags == Init /\ [][NextTags]_vars

NextSort ==
    \/ Writes
    \/ \E criteria \in CriteriaInputs, p \in Pages : sortRecipes(criteria, p.limit, p.offset)

SpecSort == Init /\ [][NextSort]_vars

\* Many recipes and the three paged queries; only createRecipe writes.
NextPaging ==
    \/ Tick
    \/ nextRecipeId <= MaxPagingId /\ createRecipe(VeganCake)
    \/ \E query \in {"", "VEGAN"}, p \in Pages : searchRecipes(query, p.limit, p.offset)
    \/ \E p \in Pages : filterRecipesByTags(<<"Vegan">>, p.limit, p.offset)
    \/ \E criteria \in SortCriteria, p \in Pages : sortRecipes(criteria, p.limit, p.offset)

SpecPaging == Init /\ [][NextPaging]_vars

\* sortRecipes by name, in full, over stores with names that differ in case
\* only or in an ignored character only.
NextNames ==
    \/ Writes
    \/ nextRecipeId <= MaxRecipeId /\ createRecipe(HyphenatedToast)
    \/ \E criteria \in {"az", "za"} : sortRecipes(criteria, 3 * PageSize, 0)

SpecNames == Init /\ [][NextNames]_vars

\* The handler of GET /api/recipes over a store that changes.
NextRoute ==
    \/ Writes
    \/ \E q \in RequestQueries : GetApiRecipes(q)

SpecRoute == Init /\ [][NextRoute]_vars

\* The handler with limits and offsets of every sign.
NextLimits ==
    \/ Writes
    \/ \E q \in LimitQueries : GetApiRecipes(q)

SpecLimits == Init /\ [][NextLimits]_vars

\* The handlers that read and write single recipes.
NextHttp ==
    \/ Tick
    \/ \E body \in PostBodies : nextRecipeId <= MaxRecipeId /\ PostApiRecipes(body)
    \/ \E params \in IdParams : GetApiRecipesId(params)
    \/ \E params \in IdParams, body \in PutBodies : PutApiRecipesId(params, body)
    \/ \E params \in IdParams : DeleteApiRecipesId(params)

SpecHttp == Init /\ [][NextHttp]_vars

\* The page's steps leave the store alone: one seeding is enough.
InitHome == Init /\ now = 1

\* The search box and the two debounces.
NextDebounce ==
    \/ \E value \in SearchTexts : handleSearchInput(value)
    \/ SearchTimerFires
    \/ DebounceTimerFires
    \/ Elapse
    \/ \E f \in inflight : Respond(f, 2)
    \/ \E key \in DOMAIN cache : GarbageCollect(key)

SpecDebounce == InitHome /\ [][NextDebounce]_vars

\* The same steps where what is pending comes about: time passes, a timer
\* that is due fires, a request is answered, and a query that no component
\* observes leaves the cache when its gcTime is over.
SpecSettle ==
    /\ InitHome
    /\ [][NextDebounce]_vars
    /\ WF_vars(Elapse)
    /\ WF_vars(SearchTimerFires)
    /\ WF_vars(DebounceTimerFires)
    /\ WF_vars(\E f \in inflight : Respond(f, 2))
    /\ WF_vars(\E key \in DOMAIN cache : GarbageCollect(key))

\* The home page with its infinite query.
NextInfinite ==
    \/ handleSearchInput("Avo")
    \/ SearchTimerFires
    \/ DebounceTimerFires
    \/ Elapse
    \/ \E tag \in TagChoices : handleTagChange(tag)
    \/ \E value \in SortChoices : handleSortChange(value)
    \/ handleClearFilters
    \/ onLoadMore
    \/ handleCreateSuccess
    \/ \E f \in inflight, n \in ResponseLengths : Respond(f, n)
    \/ \E key \in DOMAIN cache : GarbageCollect(key)

SpecInfinite == InitHome /\ [][NextInfinite]_vars

\* The list of ingredients of the create-recipe dialog.
NextDialog ==
    \/ \E value \in IngredientInputs : setIngredientInput(value)
    \/ addIngredient
    \/ \E index \in 0..(MaxIngredients - 1) : removeIngredient(index)
    \/ \E result \in DropResults(MaxIngredients) : onDragEndIngredients(result)
    \/ \E index \in 0..(MaxIngredients - 1) : swapIngredientUp(index)
    \/ \E index \in 0..(MaxIngredients - 1) : swapIngredientDown(index)
    \/ \E index \in 0..(MaxIngredients - 1) : startEditIngredient(index)
    \/ \E value \in TempTexts : setTempIngredient(value)
    \/ confirmEditIngredient

SpecDialog == InitHome /\ [][NextDialog]_vars

\* Requests to /api/recipes/:id whose handlers are in progress together.
NextFlight ==
    \/ \E r \in 1..MaxRequests, params \in FlightParams, body \in FlightBodies :
           PutBegins(r, params, body)
    \/ \E r \in 1..MaxRequests : PutResumes(r)
    \/ \E r \in 1..MaxRequests : PutResponds(r)
    \/ \E r \in 1..MaxRequests, params \in FlightParams : DeleteBegins(r, params)
    \/ \E r \in 1..MaxRequests : DeleteResumes(r)
    \/ \E r \in 1..MaxRequests : DeleteResponds(r)

SpecFlight == Init /\ [][NextFlight]_vars

\* sortRecipes and GET /api/recipes with a sort that is no criterion.
NextUnknownSort ==
    \/ Writes
    \/ \E criteria \in CriteriaInputs \ SortCriteria, p \in Pages :
           sortRecipes(criteria, p.limit, p.offset)
    \/ \E q \in UnknownSortQueries : GetApiRecipes(q)

SpecUnknownSort == Init /\ [][NextUnknownSort]_vars

\* Load More on a store that is left alone from the first response on: the
\* recipes are created, and the tag and the sort chosen, before it.
NextLoadMore ==
    \/ \E insertRecipe \in InsertRecipes :
           cache = EmptyObject /\ nextRecipeId <= MaxRecipeId /\ createRecipe(insertRecipe)
    \/ \E tag \in TagChoices : cache = EmptyObject /\ handleTagChange(tag)
    \/ \E value \in SortChoices : cache = EmptyObject /\ handleSortChange(value)
    \/ onLoadMore
    \/ \E f \in inflight : RespondFromServer(f)

\* Load More is clicked while it is shown, and every request is answered
\* (with however many recipes: the steps allow the server's answer only).
SpecLoadMore ==
    /\ Init
    /\ [][NextLoadMore]_vars
    /\ WF_vars(onLoadMore)
    /\ WF_vars(\E f \in inflight, n \in 0..PageSize : Respond(f, n))

\* The ids PostgresStorage's calls are explored with.
PgIds == 1..(MaxPgRows + 1)

\* PostgresStorage, and deleteRecipe of MemStorage beside it.
NextPg ==
    \/ Tick
    \/ \E data \in InsertRecipes :
          Len(pgRows) < MaxPgRows /\ PostgresStorage_createRecipe(data)
    \/ \E id \in PgIds : PostgresStorage_getRecipeById(id)
    \/ \E id \in PgIds : PostgresStorage_deleteRecipe(id)
    \/ \E id \in RecipeIds : deleteRecipe(id)

SpecPg == Init /\ [][NextPg]_vars

\* The limits and offsets the two backends are compared with.
BackendPages == {[limit |-> PageSize, offset |-> 0], [limit |-> 2, offset |-> 1]}

\* A table filled as the MemStorage is: the sample recipes created in their
\* order, then a recipe created in both; and the queries of PostgresStorage.
NextBackends ==
    \/ Tick
    \/ /\ Len(pgRows) < SeedCount
       /\ PostgresStorage_createRecipe(sampleRecipes[Len(pgRows) + 1])
    \/ /\ Len(pgRows) = SeedCount
       /\ PostgresStorage_createRecipe(VeganCake)
    \/ nextRecipeId <= MaxRecipeId /\ createRecipe(VeganCake)
    \/ \E p \in BackendPages : PostgresStorage_getRecipes(p.limit, p.offset)
    \/ \E query \in SearchQueries, p \in BackendPages :
          PostgresStorage_searchRecipes(query, p.limit, p.offset)
    \/ \E tags \in TagLists, p \in BackendPages :
          PostgresStorage_filterRecipesByTags(tags, p.limit, p.offset)
    \/ \E criteria \in SortCriteria, p \in BackendPages :
          PostgresStorage_sortRecipes(criteria, p.limit, p.offset)

SpecBackends == Init /\ [][NextBackends]_vars

(***************************************************************************)
(* Properties of the store.                                                *)
(***************************************************************************)
ServerKeys == {"id", "createdAt", "rating", "ratingCount"}

\* C1: createRecipe followed by getRecipeById(returned id) yields a record
\* that has every field of the input, except that id and createdAt are the
\* server's (the next id, the clock's time) and rating and ratingCount are 0,
\* whatever the caller supplied for them.
C1_CreateThenGetById ==
    [][\A insertRecipe \in InsertRecipes :
          createRecipe(insertRecipe) =>
              LET got == GetRecipeByIdResult(recipes', last'.ret.id)
              IN  /\ got # Undefined
                  /\ DOMAIN got = (DOMAIN insertRecipe) \cup ServerKeys
                  /\ \A k \in (DOMAIN insertRecipe) \ ServerKeys : got[k] = insertRecipe[k]
                  /\ got.id = nextRecipeId
                  /\ got.createdAt = now
                  /\ got.rating = 0
                  /\ got.ratingCount = 0]_vars

\* A recipe was created from an input that carried its own id, createdAt and
\* rating, and the stored record has the server's.
C1_Witness ==
    /\ last.op = "createRecipe"
    /\ ServerKeys \subseteq DOMAIN last.insertRecipe
    /\ GetRecipeByIdResult(recipes, last.ret.id).id # last.insertRecipe.id
    /\ GetRecipeByIdResult(recipes, last.ret.id).rating = 0

\* C2: after any sequence of create, update and delete, the recipes of the
\* store have pairwise different ids, and every id in the store is one that
\* createRecipe has assigned (ids are assigned in increasing order and never
\* again, so they are all below nextRecipeId).
C2_IdsUniqueAndAssigned ==
    /\ \A i, j \in 1..Len(recipes) : i # j => recipes[i].val.id # recipes[j].val.id
    /\ \A i \in 1..Len(recipes) : recipes[i].val.id \in 1..(nextRecipeId - 1)

\* What createRecipe and deleteRecipe do keep: the keys of the Map are
\* pairwise different and below nextRecipeId, and createRecipe's id is above
\* every key the Map has held.
C2_KeysUniqueAndAssigned ==
    /\ \A i, j \in 1..Len(recipes) : i # j => recipes[i].key # recipes[j].key
    /\ \A i \in 1..Len(recipes) : recipes[i].key \in 1..(nextRecipeId - 1)

\* C3: updateRecipe on an existing id leaves the id and the createdAt of the
\* record stored under that id as they were, whatever the payload.
C3_UpdateKeepsIdAndCreatedAt ==
    [][\A id \in RecipeIds, updates \in UpdatePayloads :
          (updateRecipe(id, updates) /\ MapHas(recipes, id)) =>
              /\ MapGet(recipes', id).id = MapGet(recipes, id).id
              /\ MapGet(recipes', id).createdAt = MapGet(recipes, id).createdAt]_vars

\* C8: after deleteRecipe(id), getRecipeById(id) yields undefined; on an id
\* that is in the store deleteRecipe returns true, and on an id that is not
\* (deleted before, or never assigned) it returns false and leaves the store
\* as it is.
C8_DeleteThenGetAndDeleteAgain ==
    [][\A id \in RecipeIds :
          deleteRecipe(id) =>
              /\ GetRecipeByIdResult(recipes', id) = Undefined
              /\ MapHas(recipes, id) => last'.ok = TRUE
              /\ ~MapHas(recipes, id) =>
                     /\ last'.ok = FALSE
                     /\ recipes' = recipes
                     /\ nextRecipeId' = nextRecipeId]_vars

\* deleteRecipe was called on an id that createRecipe had assigned and that
\* is no longer in the store, and answered false.
C8_Witness ==
    /\ last.op = "deleteRecipe"
    /\ last.id < nextRecipeId
    /\ last.ok = FALSE
    /\ edits > 0
    /\ GetRecipeByIdResult(recipes, last.id) = Undefined

\* C9: in MemStorage and in PostgresStorage, deleteRecipe(id) returns true
\* when the store held a record with that id (and removes it), and false when
\* it held none.
C9_DeleteReturnsWhetherRecordExisted ==
    [][/\ \A id \in RecipeIds :
             deleteRecipe(id) =>
                 /\ last'.ok = MapHas(recipes, id)
                 /\ ~MapHas(recipes', id)
       /\ \A id \in PgIds :
             PostgresStorage_deleteRecipe(id) =>
                 /\ last'.ok = PgHas(pgRows, id)
                 /\ ~PgHas(pgRows', id)]_vars

\* C14: updateRecipe(id, {}) for a stored id returns a record equal to the
\* one stored before in every field (updatedAt aside), stores that record,
\* and changes no other record of the store.
C14_UpdateWithNothingIsNoOp ==
    [][\A id \in RecipeIds :
          MapHas(recipes, id) /\ updateRecipe(id, EmptyObject) =>
              /\ Without(last'.ret, {"updatedAt"}) = Without(MapGet(recipes, id), {"updatedAt"})
              /\ Without(MapGet(recipes', id), {"updatedAt"})
                     = Without(MapGet(recipes, id), {"updatedAt"})
              /\ Len(recipes') = Len(recipes)
              /\ \A i \in 1..Len(recipes) :
                     recipes[i].key # id => recipes'[i] = recipes[i]]_vars

\* updateRecipe(2, {}) returned the second seed recipe.
C14_Witness ==
    /\ last.op = "updateRecipe"
    /\ last.updates = EmptyObject
    /\ last.id = 2
    /\ last.ret # Undefined
    /\ last.ret.name = sampleRecipes[2].name
    /\ edits > 0

(***************************************************************************)
(* Properties of the queries.                                              *)
(***************************************************************************)
HasAllTags(recipe, tags) == Range(tags) \subseteq Range(recipe.tags)

\* C4: filterRecipesByTags with a non-empty tag list returns only recipes
\* that carry every requested tag, and when the page covers the whole store
\* (offset 0, limit at least the number of recipes) it returns every stored
\* recipe that carries them all.
C4_FilterByTagsIsAnd ==
    (last.op = "filterRecipesByTags" /\ Len(last.tags) > 0) =>
        /\ \A i \in 1..Len(last.ret) : HasAllTags(last.ret[i], last.tags)
        /\ \A i \in 1..Len(last.ret) : \E j \in 1..Len(recipes) : recipes[j].val = last.ret[i]
        /\ (last.offset = 0 /\ last.limit >= Len(recipes)) =>
               \A j \in 1..Len(recipes) :
                   HasAllTags(recipes[j].val, last.tags) =>
                       \E i \in 1..Len(last.ret) : last.ret[i] = recipes[j].val

\* Two tags were asked for; a recipe with both was returned while the store
\* holds a recipe with only one of them.
C4_Witness ==
    /\ last.op = "filterRecipesByTags"
    /\ Len(last.tags) = 2
    /\ Len(last.ret) > 0
    /\ \E j \in 1..Len(recipes) :
          /\ last.tags[1] \in Range(recipes[j].val.tags)
          /\ ~HasAllTags(recipes[j].val, last.tags)

\* The texts searchRecipes looks at.
SearchedTexts(recipe) ==
    {recipe.name, recipe.description} \cup Range(recipe.ingredients) \cup Range(recipe.tags)

IsSearchHit(recipe, query) ==
    \E text \in SearchedTexts(recipe) : Contains(LowerCased(text), LowerCased(query))

\* C5: searchRecipes returns only stored recipes in which the lower-cased
\* query is a substring of the lower-cased name, description, an ingredient
\* or a tag, returns all of them when the page covers the whole store, and
\* for the empty query returns what getRecipes returns for the same page.
C5_SearchIsCaseInsensitiveSubstring ==
    last.op = "searchRecipes" =>
        /\ \A i \in 1..Len(last.ret) :
              /\ IsSearchHit(last.ret[i], last.query)
              /\ \E j \in 1..Len(recipes) : recipes[j].val = last.ret[i]
        /\ (last.offset = 0 /\ last.limit >= Len(recipes)) =>
               \A j \in 1..Len(recipes) :
                   IsSearchHit(recipes[j].val, last.query) =>
                       \E i \in 1..Len(last.ret) : last.ret[i] = recipes[j].val
        /\ last.query = "" =>
               last.ret = GetRecipesResult(recipes, last.limit, last.offset)

\* A search returned a recipe that matches through one of its ingredients
\* only, in another case than the query's, and left a stored recipe out.
C5_Witness ==
    /\ last.op = "searchRecipes"
    /\ last.query # ""
    /\ Len(last.ret) < Len(recipes)
    /\ \E i \in 1..Len(last.ret) :
          /\ ~Contains(last.ret[i].name, last.query)
          /\ ~SearchMatchesNameOrDescription(last.ret[i], LowerCased(last.query))
          /\ \E g \in Range(last.ret[i].ingredients) :
                ~Contains(g, last.query) /\ Contains(LowerCased(g), LowerCased(last.query))

\* a may stand before b under the criterion
InOrder(criteria, a, b) ==
    CASE criteria = "newest" -> a.createdAt >= b.createdAt
      [] criteria = "oldest" -> a.createdAt <= b.createdAt
      [] criteria = "az" -> Collate(a.name, b.name) <= 0
      [] criteria = "za" -> Collate(a.name, b.name) >= 0
      [] criteria = "popular" -> a.rating >= b.rating

IsTie(criteria, a, b) == InOrder(criteria, a, b) /\ InOrder(criteria, b, a)

\* The place of the record in the Map
PlaceOf(m, recipe) == CHOOSE i \in 1..Len(m) : m[i].val = recipe

SortedByCriterion ==
    (last.op = "sortRecipes" /\ last.criteria \in SortCriteria) =>
        /\ \A i, j \in 1..Len(last.ret) :
              i < j => InOrder(last.criteria, last.ret[i], last.ret[j])
        /\ \A i \in 1..Len(last.ret) : \E j \in 1..Len(recipes) : recipes[j].val = last.ret[i]
        /\ (last.offset = 0 /\ last.limit >= Len(recipes)) => Len(last.ret) = Len(recipes)

\* C6: sortRecipes returns the recipes ordered by the criterion (newest and
\* oldest by createdAt, az and za by name, popular by rating), and recipes that
\* compare equal under the criterion stand in ascending id order.
C6_SortedWithTiesByAscendingId ==
    /\ SortedByCriterion
    /\ (last.op = "sortRecipes" /\ last.criteria \in SortCriteria) =>
           \A i, j \in 1..Len(last.ret) :
               (i < j /\ IsTie(last.criteria, last.ret[i], last.ret[j])) =>
                   last.ret[i].id <= last.ret[j].id

\* What the code does keep: recipes that compare equal stand in the order of
\* the Map, which is the order of their keys.
C6_SortedWithTiesByMapOrder ==
    /\ SortedByCriterion
    /\ (last.op = "sortRecipes" /\ last.criteria \in SortCriteria) =>
           \A i, j \in 1..Len(last.ret) :
               (i < j /\ IsTie(last.criteria, last.ret[i], last.ret[j])
                      /\ last.ret[i] # last.ret[j]) =>
                   PlaceOf(recipes, last.ret[i]) < PlaceOf(recipes, last.ret[j])

\* What the call `call` returns for another page
PagedResult(call, limit, offset) ==
    CASE call.op = "searchRecipes" -> SearchRecipesResult(recipes, call.query, limit, offset)
      [] call.op = "filterRecipesByTags" ->
             FilterRecipesByTagsResult(recipes, call.tags, limit, offset)
      [] call.op = "sortRecipes" -> SortRecipesResult(recipes, call.criteria, limit, offset)

\* C7: for the search text, tag list or sort criterion of the last query and
\* the store as it is, the pages at offsets 0, 6 and 12 with limit 6, one
\* after the other, are the result of one call with limit 18 and offset 0.
C7_PagesConcatenate ==
    last.op \in {"searchRecipes", "filterRecipesByTags", "sortRecipes"} =>
        /\ last.ret = PagedResult(last, last.limit, last.offset)
        /\ PagedResult(last, PageSize, 0) \o PagedResult(last, PageSize, PageSize)
               \o PagedResult(last, PageSize, 2 * PageSize)
           = PagedResult(last, 3 * PageSize, 0)

\* The third page of a tag filter came back with a recipe in it.
C7_Witness ==
    /\ last.op = "filterRecipesByTags"
    /\ last.limit = PageSize
    /\ last.offset = 2 * PageSize
    /\ Len(last.ret) > 0


\* C10: GET /api/recipes makes exactly one of the three storage calls and
\* answers with its result: searchRecipes when the search parameter is not
\* blank, whatever tags and sort say; otherwise filterRecipesByTags when tags
\* are given, whatever sort says; otherwise sortRecipes by the sort
\* parameter, or by 'newest' when there is none.
C10_SearchThenTagsThenSort ==
    [][\A q \in RequestQueries :
          GetApiRecipes(q) =>
              LET hasSearch == "search" \in DOMAIN q /\ Trim(q.search) # ""
                  hasTags == "tags" \in DOMAIN q /\ Len(q.tags) > 0
                  hasSort == "sort" \in DOMAIN q /\ Len(q.sort) > 0
                  limit == last'.call.limit
                  offset == last'.call.offset
              IN  /\ last'.status = 200
                  /\ hasSearch =>
                         /\ last'.call.fn = "searchRecipes"
                         /\ last'.body = SearchRecipesResult(recipes, q.search, limit, offset)
                  /\ ~hasSearch /\ hasTags =>
                         /\ last'.call.fn = "filterRecipesByTags"
                         /\ last'.body =
                                FilterRecipesByTagsResult(recipes, Split(q.tags), limit, offset)
                  /\ ~hasSearch /\ ~hasTags =>
                         /\ last'.call.fn = "sortRecipes"
                         /\ last'.body =
                                SortRecipesResult(recipes, IF hasSort THEN q.sort ELSE "newest",
                                                  limit, offset)]_vars

\* A request with search, tags and sort was answered with the search's hits,
\* which are not what its tags or its sort alone would have given.
C10_Witness ==
    /\ last.op = "GET /api/recipes"
    /\ {"search", "tags", "sort"} \subseteq DOMAIN last.req
    /\ last.call.fn = "searchRecipes"
    /\ Len(last.body) > 0
    /\ last.body # FilterRecipesByTagsResult(recipes, Split(last.req.tags),
                                             last.call.limit, last.call.offset)
    /\ last.body # SortRecipesResult(recipes, last.req.sort, last.call.limit,
                                     last.call.offset)


Reverse(arr) == [i \in 1..Len(arr) |-> arr[Len(arr) + 1 - i]]

StoredNames == {recipes[i].val.name : i \in 1..Len(recipes)}

\* No two stored recipes have the same name
NamesPairwiseDistinct == Cardinality(StoredNames) = Len(recipes)

\* No two stored recipes have names that localeCompare finds equal
NamesPairwiseUnequal ==
    \A i, j \in 1..Len(recipes) :
        i < j => LocaleCompare(recipes[i].val.name, recipes[j].val.name) # 0

\* C15 as stated: when the stored recipes have pairwise distinct names, the
\* full result of sortRecipes('za') is the reverse of the full result of
\* sortRecipes('az').
C15_ZaReversesAzForDistinctNames ==
    [][(NamesPairwiseDistinct /\ sortRecipes("za", 3 * PageSize, 0)) =>
           last'.ret = Reverse(SortRecipesResult(recipes, "az", 3 * PageSize, 0))]_vars

\* C15 amended: when no two stored recipes have names that compare equal
\* under localeCompare, the full result of sortRecipes('za') is the reverse
\* of the full result of sortRecipes('az').
C15_ZaReversesAzForUnequalNames ==
    [][(NamesPairwiseUnequal /\ sortRecipes("za", 3 * PageSize, 0)) =>
           last'.ret = Reverse(SortRecipesResult(recipes, "az", 3 * PageSize, 0))]_vars

\* sortRecipes('za') returned all seven recipes of a store in which two names
\* differ in case only and none compares equal to another.
C15_Witness ==
    /\ last.op = "sortRecipes" /\ last.criteria = "za"
    /\ Len(last.ret) = SeedCount + 1
    /\ Len(recipes) = SeedCount + 1
    /\ NamesPairwiseUnequal
    /\ {"Avocado Toast", "avocado toast"} \subseteq StoredNames
    /\ last.ret = Reverse(SortRecipesResult(recipes, "az", 3 * PageSize, 0))

\* The table holds the records the Map holds
SameStoredData == Range(pgRows) = Range(MapValues(recipes))

\* C16: when the table and the Map hold the same records, PostgresStorage
\* returns from getRecipes, searchRecipes, filterRecipesByTags and sortRecipes
\* (for each of the five criteria) the sequence MemStorage returns for the
\* same arguments.
C16_BackendsReturnTheSame ==
    [][SameStoredData =>
          \A p \in BackendPages :
              /\ PostgresStorage_getRecipes(p.limit, p.offset) =>
                     last'.ret = GetRecipesResult(recipes, p.limit, p.offset)
              /\ \A query \in SearchQueries :
                     PostgresStorage_searchRecipes(query, p.limit, p.offset) =>
                         last'.ret = SearchRecipesResult(recipes, query, p.limit, p.offset)
              /\ \A tags \in TagLists :
                     PostgresStorage_filterRecipesByTags(tags, p.limit, p.offset) =>
                         /\ "ret" \in DOMAIN last'
                         /\ last'.ret
                                = FilterRecipesByTagsResult(recipes, tags, p.limit, p.offset)
              /\ \A criteria \in SortCriteria :
                     PostgresStorage_sortRecipes(criteria, p.limit, p.offset) =>
                         last'.ret = SortRecipesResult(recipes, criteria, p.limit, p.offset)]_vars

(***************************************************************************)
(* Properties of the handlers of single recipes.                           *)
(***************************************************************************)
RequiredOfInsert ==
    {"name", "description", "ingredients", "instructions", "prepTime", "cookTime",
     "servings", "tags", "authorId"}

PassesInsertRecipeSchema(body) ==
    /\ RequiredOfInsert \subseteq DOMAIN body
    /\ "imageUrl" \in DOMAIN body => body.imageUrl \in {JsonNull} \cup {JsonString("")}

\* C11: POST /api/recipes with a body the insert schema accepts answers 201
\* and adds exactly one recipe, under an id no stored recipe had, with
\* authorId 1 whatever the body said; with any other body it answers 400 and
\* the store stays as it was.
C11_PostCreatesOneOrRejects ==
    [][\A body \in PostBodies :
          PostApiRecipes(body) =>
              IF PassesInsertRecipeSchema(body)
              THEN /\ last'.status = 201
                   /\ Len(recipes') = Len(recipes) + 1
                   /\ SubSeq(recipes', 1, Len(recipes)) = recipes
                   /\ ~MapHas(recipes, last'.json.id)
                   /\ last'.json.id = nextRecipeId
                   /\ last'.json.id \in Nat
                   /\ last'.json.authorId = 1
                   /\ recipes'[Len(recipes')] = [key |-> last'.json.id, val |-> last'.json]
              ELSE /\ last'.status = 400
                   /\ recipes' = recipes
                   /\ nextRecipeId' = nextRecipeId]_vars

\* A body naming author 2 and an id of its own was stored under a new id for
\* author 1.
C11_Witness ==
    /\ last.op = "POST /api/recipes"
    /\ last.status = 201
    /\ last.req.body.authorId = 2
    /\ last.req.body.id # last.json.id
    /\ last.json.authorId = 1
    /\ MapGet(recipes, last.json.id) = last.json


\* The recipe of the store is kept under the id the path names.
StoredUnder(m, params) == \E i \in 1..Len(m) : ToString(m[i].key) = params.id

IsPartialRecipeData(body) ==
    "imageUrl" \in DOMAIN body =>
        \/ "string" \in DOMAIN body.imageUrl
        \/ "null" \in DOMAIN body.imageUrl

\* C13: PUT /api/recipes/:id for a stored recipe, with a body holding a
\* wrongly typed field, is answered 400 and leaves the stored recipe as it was.
C13_PutRejectsInvalidBody ==
    [][\A params \in IdParams, body \in PutBodies :
          StoredUnder(recipes, params) /\ ~IsPartialRecipeData(body) =>
              (PutApiRecipesId(params, body) =>
                   /\ last'.status = 400
                   /\ recipes' = recipes)]_vars

\* The recipes of the constructor's list, as createRecipe stores them but
\* for the time of their creation.
IsSeed(recipe, i) ==
    /\ recipe.id = i
    /\ recipe.rating = 0 /\ recipe.ratingCount = 0
    /\ \A k \in DOMAIN sampleRecipes[i] : recipe[k] = sampleRecipes[i][k]

\* C20: a freshly constructed MemStorage holds exactly the six seed recipes
\* under the ids 1..6, with 7 as the next id, and GET
\* /api/recipes?limit=6&sort=newest on that state is answered with exactly
\* those six recipes, no recipe before one that was created later.
C20_FreshStoreListsSixSeeds ==
    [][last.op = "constructor" =>
          /\ Len(recipes) = 6
          /\ MapKeys(recipes) = 1..6
          /\ \A i \in 1..6 : recipes[i].key = i /\ IsSeed(recipes[i].val, i)
          /\ nextRecipeId = 7
          /\ GetApiRecipes([limit |-> "6", sort |-> "newest"]) =>
                 /\ last'.status = 200
                 /\ Len(last'.body) = 6
                 /\ Range(last'.body) = Range(MapValues(recipes))
                 /\ \A i, j \in 1..6 :
                        i < j => last'.body[i].createdAt >= last'.body[j].createdAt]_vars

\* The first request to a store whose seeds were not all created in the same
\* millisecond was GET /api/recipes?limit=6&sort=newest.
C20_Witness ==
    /\ last.op = "GET /api/recipes"
    /\ last.req = [limit |-> "6", sort |-> "newest"]
    /\ nextRecipeId = SeedCount + 1 /\ edits = 0 /\ Len(recipes) = SeedCount
    /\ Len(last.body) = 6
    /\ last.body[1].createdAt > last.body[6].createdAt
    /\ recipes[1].val.createdAt < recipes[6].val.createdAt

\* The stored recipes from the one at `offset` on, at most `limit` of them,
\* in the order of the Map (offset and limit not negative)
InsertionOrderPage(result, limit, offset) ==
    /\ Len(result) = Max({0, Min({limit, Len(recipes) - offset})})
    /\ \A i \in 1..Len(result) : result[i] = recipes[offset + i].val

\* C22: sortRecipes with a criterion that is none of newest, oldest, az, za,
\* popular sorts nothing and throws nothing: it returns the stored recipes in
\* insertion order, from `offset` on and at most `limit`; GET /api/recipes
\* passes such a sort value on to sortRecipes as it is and answers 200.
C22_UnknownCriterionKeepsInsertionOrder ==
    [][/\ \A criteria \in CriteriaInputs \ SortCriteria, p \in Pages :
              sortRecipes(criteria, p.limit, p.offset) =>
                  /\ InsertionOrderPage(last'.ret, p.limit, p.offset)
                  /\ recipes' = recipes
       /\ \A q \in UnknownSortQueries :
              GetApiRecipes(q) =>
                  /\ last'.status = 200
                  /\ last'.call.fn = "sortRecipes"
                  /\ last'.call.criteria = q.sort
                  /\ InsertionOrderPage(last'.body, last'.call.limit, last'.call.offset)]_vars

\* GET /api/recipes?sort=rating was answered with the recipes as stored, which
\* is not the order by time of creation, newest first, nor an order by name.
C22_Witness ==
    /\ last.op = "GET /api/recipes"
    /\ last.req = [sort |-> "rating"]
    /\ last.status = 200
    /\ Len(last.body) = PageSize
    /\ \A criteria \in {"newest", "az", "za"} :
           last.body # SortRecipesResult(recipes, criteria, PageSize, 0)

\* The text is an integer: digits, with or without a sign before them
IsIntegerText(s) ==
    /\ Len(s) > 0
    /\ \A i \in 1..Len(s) :
           \/ IsDigit(CharAt(s, i))
           \/ i = 1 /\ Len(s) > 1 /\ CharAt(s, 1) \in {"-", "+"}

\* C23: GET /api/recipes passes on to the storage the integer the limit
\* parameter gives, 0 included, and 6 when there is no limit parameter; and
\* the integer the offset parameter gives, and 0 when there is none.
C23_LimitAndOffsetPassedOn ==
    [][\A q \in RequestQueries :
          GetApiRecipes(q) =>
              /\ "limit" \notin DOMAIN q => last'.call.limit = 6
              /\ "limit" \in DOMAIN q /\ IsIntegerText(q.limit) =>
                     last'.call.limit = ParseInt(q, "limit").value
              /\ "offset" \notin DOMAIN q => last'.call.offset = 0
              /\ "offset" \in DOMAIN q /\ IsIntegerText(q.offset) =>
                     last'.call.offset = ParseInt(q, "offset").value]_vars

\* The response to the query with another sort
ResponseWithSort(q, sort) ==
    StorageCallResult(recipes, StorageCall(Spread(q, [sort |-> sort])))

\* C28: a request that carries a non-blank search, or tags, gets its matches
\* in insertion order, which is ascending id order, and gets the same
\* response whatever its sort is.
C28_MatchesInIdOrderWhateverSort ==
    [][\A q \in RequestQueries :
          (GetApiRecipes(q) /\ last'.call.fn # "sortRecipes") =>
              /\ \A i, j \in 1..Len(last'.body) :
                     i < j => last'.body[i].id <= last'.body[j].id
              /\ \A sort \in SortCriteria : ResponseWithSort(q, sort) = last'.body]_vars

\* What the code does keep: the matches stand in the order of the Map, which
\* is the order of their keys, whatever the sort.
C28_MatchesInMapOrderWhateverSort ==
    [][\A q \in RequestQueries :
          (GetApiRecipes(q) /\ last'.call.fn # "sortRecipes") =>
              /\ \A i, j \in 1..Len(last'.body) :
                     (i < j /\ last'.body[i] # last'.body[j]) =>
                         PlaceOf(recipes, last'.body[i]) < PlaceOf(recipes, last'.body[j])
              /\ \A sort \in SortCriteria : ResponseWithSort(q, sort) = last'.body]_vars

\* C29: for every integer limit and offset the query string gives, zero
\* and negative ones included, the response of GET /api/recipes holds at
\* most max(limit, 0) recipes.
C29_AtMostLimitRecipes ==
    [][\A q \in LimitQueries :
          GetApiRecipes(q) =>
              Len(last'.body) <= Max({ParseInt(q, "limit").value, 0})]_vars

(***************************************************************************)
(* Properties of the home page.                                            *)
(***************************************************************************)
AtMostOneTimerPerStage == \A t, u \in timers : t.owner = u.owner => t = u

\* C17: at most one timer is pending for each of the two debounces, and the
\* debounced search term is only ever set to the text the search box holds
\* and has held, unchanged, for the quiet period of 500 ms.
C17_DebouncedTermIsSettledInput ==
    [][/\ AtMostOneTimerPerStage'
       /\ debouncedSearchTerm' # debouncedSearchTerm =>
              /\ debouncedSearchTerm' = searchInput
              /\ inputAge >= SearchTermDelay]_vars

\* C18: whenever the debounced search term, the selected tags or the sort
\* option changes, the first request for the new configuration carries
\* offset 0, whatever number of pages was loaded before.
C18_FirstRequestAfterChangeAtOffsetZero ==
    issued # <<>> => issued[1] = 0

\* The index, in the list of pages, of the page a fetch waits for
PageIndexOf(f) == IF f.mode = "next" THEN Len(cache[f.key]) ELSE Len(f.acc)

\* C19 as stated: for a fixed configuration the k-th page request carries
\* offset 6*k (k = 0, 1, 2, ...), so the offsets strictly increase and the
\* ranges [offset, offset + 6) of distinct requests never overlap.
C19_KthRequestAtOffset6K ==
    \A k \in 1..Len(issued) : issued[k] = PageSize * (k - 1)

\* C19, amended: every request carries limit 6, and the request for the page
\* at index k of the list carries offset 6*k; from one request for offset 0
\* to the next (a refetch asks for the pages again from offset 0) the
\* offsets strictly increase and the ranges do not overlap.
C19_PageKAtOffset6K ==
    /\ \A f \in inflight :
           /\ f.limit = PageSize
           /\ f.offset = PageSize * PageIndexOf(f)
    /\ \A k \in 2..Len(issued) :
           issued[k] # 0 => issued[k] >= issued[k - 1] + PageSize

\* Two pages were loaded, a recipe was created, and the refetch has asked
\* for the first page again and waits for the second.
C19_Witness ==
    /\ issued = <<0, PageSize, 0, PageSize>>
    /\ \E f \in inflight :
           f.key = CurrentKey /\ f.mode = "load" /\ f.offset = PageSize /\ f.want = 2

\* The pages the requests of the configuration were answered with
FetchedPages == [i \in 1..Len(issued) |-> ServerAnswer(CurrentKey, issued[i])]

RECURSIVE Flat(_)
Flat(pages) == IF Len(pages) = 0 THEN <<>> ELSE Head(pages) \o Flat(Tail(pages))

\* All the recipes the configuration matches, in the order of the server
FullMatching ==
    StorageCallResult(recipes,
        [StorageCall(QueryOf(CurrentKey, 0)) EXCEPT !.limit = Len(recipes) + 1, !.offset = 0])

LoadedAll ==
    /\ CurrentKey \in DOMAIN cache
    /\ ~IsFetching(CurrentKey)
    /\ ~HasNextPage(cache[CurrentKey])

LoadedSoFar ==
    (CurrentKey \in DOMAIN cache /\ ~IsFetching(CurrentKey)) =>
        /\ cache[CurrentKey] = [i \in 1..Len(issued) |-> Len(FetchedPages[i])]
        /\ Len(issued) <= (Len(FullMatching) \div PageSize) + 1
        /\ LoadedAll =>
               LET loaded == Flat(FetchedPages)
               IN  /\ loaded = FullMatching
                   /\ \A i, j \in 1..Len(loaded) : i # j => loaded[i] # loaded[j]

\* C24: for a fixed configuration and a store that does not change, with n
\* matching recipes, Load More clicked while there is a next page ends after
\* finitely many requests (n \div 6 + 1 at most: a page of fewer than 6
\* recipes, an empty one too, is the last), and the pages together are the
\* full sequence of the matching recipes, each once.
C24_LoadMoreEndsWithAllRecipes ==
    /\ []LoadedSoFar
    /\ <>LoadedAll

\* Seven recipes were loaded as a page of six and a page of one.
C24_Witness ==
    /\ LoadedAll
    /\ cache[CurrentKey] = <<PageSize, 1>>
    /\ issued = <<0, PageSize>>
    /\ Len(FullMatching) = PageSize + 1

\* C25: if the search input stops changing, the debounced search term
\* eventually equals the last value typed and stays equal to it: the two
\* debounces never leave it on an older value.
C25_DebouncedTermSettlesOnInput ==
    \/ []<><<searchInput' # searchInput>>_vars
    \/ <>[](debouncedSearchTerm = searchInput)

\* The box has been quiet for the 500 ms and the page still shows the term
\* of an older text.
C25_Witness ==
    /\ searchInput = ""
    /\ inputAge >= SearchTermDelay
    /\ searchTerm = "Avo"
    /\ debouncedSearchTerm = "Avo"

(***************************************************************************)
(* Properties of handlers in progress together.                            *)
(***************************************************************************)
\* The calls of updateRecipe that found the recipe of an id
UpdatesOf(id) ==
    {i \in 1..Len(storageCalls) :
        /\ storageCalls[i].fn = "updateRecipe"
        /\ storageCalls[i].id = id
        /\ storageCalls[i].ret # Undefined}

Deleted(id) ==
    \E i \in 1..Len(storageCalls) :
        /\ storageCalls[i].fn = "deleteRecipe"
        /\ storageCalls[i].id = id
        /\ storageCalls[i].deleted

AllDone == \A r \in 1..MaxRequests : handlers[r].pc \in {"idle", "done"}

\* C21: two updates of a recipe by requests in progress together end as
\* last write wins.  When both are complete, and they are the only writes to
\* the recipe, every field the later update supplies has the later update's
\* value, every field only the earlier supplies has the earlier's value, and
\* every other field is what it was before the two.
C21_LastWriteWins ==
    \A i, j \in 1..Len(storageCalls) :
        LET earlier == storageCalls[i]
            later == storageCalls[j]
        IN  (/\ i < j
             /\ AllDone
             /\ earlier.fn = "updateRecipe"
             /\ UpdatesOf(earlier.id) = {i, j}
             /\ ~Deleted(earlier.id)) =>
                LET stored == MapGet(recipes, earlier.id.value)
                IN  /\ DOMAIN stored = DOMAIN earlier.existing \cup DOMAIN earlier.updates
                                           \cup DOMAIN later.updates
                    /\ \A k \in DOMAIN stored :
                           stored[k] = IF k \in DOMAIN later.updates THEN later.updates[k]
                                       ELSE IF k \in DOMAIN earlier.updates
                                       THEN earlier.updates[k]
                                       ELSE earlier.existing[k]

\* Two PUT requests for recipe 2 had both passed their check before either
\* updated; both are answered, and the name is the later one's while the
\* cooking time is the earlier one's.
C21_Witness ==
    /\ AllDone
    /\ Len(storageCalls) = 4
    /\ storageCalls[1].fn = "getRecipeById" /\ storageCalls[2].fn = "getRecipeById"
    /\ storageCalls[3].fn = "updateRecipe" /\ storageCalls[4].fn = "updateRecipe"
    /\ storageCalls[3].id = storageCalls[4].id
    /\ storageCalls[3].updates = [name |-> "Zucchini Bread", cookTime |-> 45]
    /\ storageCalls[4].updates = [name |-> "Banana Bread", servings |-> 8]
    /\ MapGet(recipes, 2).name = "Banana Bread"
    /\ MapGet(recipes, 2).cookTime = 45
    /\ MapGet(recipes, 2).servings = 8

\* The handlers that have answered
Answered(op, status) ==
    {r \in 1..MaxRequests :
        /\ handlers[r].pc = "done"
        /\ handlers[r].op = op
        /\ handlers[r].status = status}

\* C26: for each recipe at most one DELETE /api/recipes/:id request ever
\* answers 204; of two requests in progress together for the same existing
\* id, one answers 204 and the other 404.
C26_AtMostOneDeleteAnswers204 ==
    \A r, s \in Answered("DELETE /api/recipes/:id", 204) :
        handlers[r].params = handlers[s].params => r = s

\* C27: every 200 response of PUT /api/recipes/:id carries the updated
\* recipe; a PUT whose recipe is gone when updateRecipe runs answers 404,
\* never 200 with an undefined body.
C27_PutAnswers200WithRecipe ==
    /\ \A r \in Answered("PUT /api/recipes/:id", 200) : handlers[r].json # Undefined
    /\ \A i \in 1..Len(storageCalls) :
           (/\ storageCalls[i].fn = "updateRecipe"
            /\ storageCalls[i].ret = Undefined
            /\ handlers[storageCalls[i].rid].pc = "done") =>
               handlers[storageCalls[i].rid].status = 404

(***************************************************************************)
(* Properties of the create-recipe dialog.                                 *)
(***************************************************************************)
IsPermutation(a, b) ==
    /\ Len(a) = Len(b)
    /\ \A x \in Range(a) \cup Range(b) :
           Cardinality({i \in 1..Len(a) : a[i] = x}) = Cardinality({i \in 1..Len(b) : b[i] = x})

Reorders ==
    \/ \E result \in DropResults(MaxIngredients) : onDragEndIngredients(result)
    \/ \E index \in 0..(MaxIngredients - 1) : swapIngredientUp(index)
    \/ \E index \in 0..(MaxIngredients - 1) : swapIngredientDown(index)

\* editingIngredientIndex is null, or the index of the ingredient whose edit
\* button was clicked
EditingIndexOnItem ==
    \/ editingIngredientIndex.null
    \/ /\ editingIngredientIndex.index \in 0..(Len(ingredients) - 1)
       /\ ingredients[editingIngredientIndex.index + 1] = editedItem

\* C30: while an ingredient is being edited, a reorder of the list is a
\* permutation of it, and after every add, remove, drag and swap
\* editingIngredientIndex, when not null, is a valid index of the list and
\* the index of the ingredient on which editing was started, so that
\* confirming the edit overwrites that ingredient and no other.
C30_EditingIndexFollowsItem ==
    [][/\ Reorders => IsPermutation(ingredients', ingredients)
       /\ EditingIndexOnItem']_vars

\* What the code does keep: every step but the removal of an ingredient
\* leaves the index on the ingredient being edited.
C30_EditingIndexFollowsItemButForRemove ==
    [][/\ Reorders => IsPermutation(ingredients', ingredients)
       /\ (\A index \in 0..(MaxIngredients - 1) : ~removeIngredient(index)) =>
              (EditingIndexOnItem => EditingIndexOnItem')]_vars

====
